---- MODULE Spec2Model ----
(***************************************************************************)
(* Model of the client-side caching utilities and data structures of       *)
(* NYUMBATZ:                                                               *)
(*   - MultiLevelCache (src/src/utils/caching.ts)                          *)
(*   - LRUCache, SpatialIndex, SearchTrie                                  *)
(*                     (src/src/components/VirtualizedPropertyList.tsx)    *)
(* Tier 1 is an LRUCache of raw values, tier 2 is sessionStorage and       *)
(* tier 3 is localStorage; both storages hold strings, which the cache     *)
(* writes with JSON.stringify and reads back with JSON.parse.              *)
(***************************************************************************)
EXTENDS Integers, Sequences, FiniteSets, TLC

(***************************************************************************)
(* Bounds of the model.                                                    *)
(***************************************************************************)
\* capacity given to the tier-1 LRUCache (constructor argument l1Size)
L1Size == 1
\* Date.now() ranges over 1..MaxTime
MaxTime == 2

\* cache keys handed to get/set/delete
Keys == {"k1", "k2"}
\* payloads handed to set: a JSON-representable payload and the number NaN
Values == {"a", "NaN"}
\* ttl arguments handed to set: the shortest one, and one that outlives MaxTime
TTLs == {1, MaxTime}
\* the key whose sets draw on all of Values and TTLs; the other keys, which
\* serve to fill tier 1, are set to "a" with the long ttl
WatchedKey == "k1"
ValuesOf(key) == IF key = WatchedKey THEN Values ELSE {"a"}
TTLsOf(key) == IF key = WatchedKey THEN TTLs ELSE {MaxTime}

(***************************************************************************)
(* JavaScript values.  A payload is named by a string; the JavaScript      *)
(* values null and undefined are the strings "null" and "undefined".       *)
(***************************************************************************)
Null == "null"
Undefined == "undefined"

(***************************************************************************)
(* Storage strings.  A string held by sessionStorage/localStorage is       *)
(* modelled by what JSON.parse makes of it:                                *)
(*   kind "json"    : the text of an object; data is the text of its data  *)
(*                    member ("omitted" when the member is missing),       *)
(*                    timestamp/ttl its numbers (0 when missing)           *)
(*   kind "corrupt" : a non-empty string JSON.parse rejects                *)
(*   kind "empty"   : the empty string ""                                  *)
(*   kind "none"    : no item (getItem returns null)                       *)
(***************************************************************************)
NoItem == [kind |-> "none", data |-> "omitted", timestamp |-> 0, ttl |-> 0]
EmptyString == [kind |-> "empty", data |-> "omitted", timestamp |-> 0, ttl |-> 0]
CorruptString == [kind |-> "corrupt", data |-> "omitted", timestamp |-> 0, ttl |-> 0]
\* the text {"data":"a"}: parsable, but no timestamp and no ttl
BareObject == [kind |-> "json", data |-> "a", timestamp |-> 0, ttl |-> 0]

\* JSON.stringify of a member value: NaN is written as null, an undefined
\* member is left out, every other payload is written as itself
JSONstringifyValue(v) ==
    CASE v = "NaN" -> Null
      [] v = Undefined -> "omitted"
      [] OTHER -> v

\* JSON.stringify that loses the data member
JSONstringifyNoData(entry) ==
    [kind |-> "json", data |-> "omitted",
     timestamp |-> entry.timestamp, ttl |-> entry.ttl]

\* JSON.stringify(cacheEntry)
JSONstringify(entry) ==
    [kind |-> "json", data |-> JSONstringifyValue(entry.data),
     timestamp |-> entry.timestamp, ttl |-> entry.ttl]

\* JSON.parse throws on a string that is no JSON text
JSONparseThrows(s) == s.kind \in {"corrupt", "empty"}

\* JSON.parse(s) for a string it accepts: a missing member reads as undefined
JSONparse(s) ==
    [data |-> IF s.data = "omitted" THEN Undefined ELSE s.data,
     timestamp |-> s.timestamp, ttl |-> s.ttl]

\* the test `if (l2Data)`: null and the empty string are falsy
Truthy(s) == s.kind \notin {"none", "empty"}

(***************************************************************************)
(* Storage keys: <<prefix, key>>; startsWith(prefix) is a test of the      *)
(* first component.  Each storage also holds one key of another script.    *)
(***************************************************************************)
L2Prefix == "nyumba_l2_"
L3Prefix == "nyumba_l3_"
ForeignKey == <<"theme_", "mode">>
L2Keys == {<<L2Prefix, k>> : k \in Keys} \cup {ForeignKey}
L3Keys == {<<L3Prefix, k>> : k \in Keys} \cup {ForeignKey}
startsWith(sk, prefix) == sk[1] = prefix

VARIABLES
    l1Cache,    \* LRUCache.cache: sequence of [key, value], least recent first
    l2Cache,    \* sessionStorage: storage key -> string
    l3Cache,    \* localStorage: storage key -> string
    now,        \* Date.now()
    lastSet,    \* history: the last set(WatchedKey) since its last delete/clear
    last        \* history: the last call, when it was a get, and what it returned

\* a stand-alone LRUCache
VARIABLES
    lru,        \* the instance: [capacity, cache], cache as l1Cache above
    lruHist     \* history of the calls made on it

\* a SpatialIndex
VARIABLES
    grid,       \* SpatialIndex.grid: grid key -> set of ids
    spatialHist \* history of the calls made on it

\* a SearchTrie
VARIABLES
    root,       \* the TrieNodes: path from the root -> propertyIds
    trieHist    \* history of the calls made on it

\* a BloomFilter
VARIABLES
    bloom,      \* the instance: [size, hashFunctions, bitArray]
    bloomHist   \* history of the calls made on it

\* a PriorityQueue
VARIABLES
    pq,         \* the instance: [heap], the array as a sequence
    pqHist      \* history of the calls made on it

\* the memoCache of performance.ts
VARIABLES
    memo,       \* [memoCache, now]: the module's Map, key -> entry, and Date.now()
    memoHist    \* history: the last call of a memoized function

\* a BatchProcessor
VARIABLES
    bp,         \* the instance: [batch, batchSize, timeout, runs]
    bpHist      \* history: the items added and the batches handed over

cacheVars == <<l1Cache, l2Cache, l3Cache, now, lastSet, last>>
lruVars == <<lru, lruHist>>
spatialVars == <<grid, spatialHist>>
trieVars == <<root, trieHist>>
bloomVars == <<bloom, bloomHist>>
queueVars == <<pq, pqHist>>
memoVars == <<memo, memoHist>>
batchVars == <<bp, bpHist>>

\* the variables of the structures other than the MultiLevelCache
structureVars == <<lruVars, spatialVars, trieVars, bloomVars,
                   queueVars,
                   memoVars,
                   batchVars>>

vars == <<l1Cache, l2Cache, l3Cache, now, lastSet, last,
          lru, lruHist, grid, spatialHist, root, trieHist,
          bloom, bloomHist,
          pq, pqHist,
          memo, memoHist,
          bp, bpHist>>

(***************************************************************************)
(* LRUCache<K, V>: a Map in insertion order.                               *)
(***************************************************************************)
LRUhas(cache, key) == \E i \in 1..Len(cache) : cache[i].key = key

LRUvalue(cache, key) ==
    LET i == CHOOSE j \in 1..Len(cache) : cache[j].key = key IN cache[i].value

\* Map.delete(key)
LRUdelete(cache, key) == SelectSeq(cache, LAMBDA e : e.key # key)

\* LRUCache.get: the value returned (undefined on a miss)
LRUgetResult(cache, key) ==
    IF LRUhas(cache, key) THEN LRUvalue(cache, key) ELSE Undefined

\* get that leaves the key where it is
LRUgetNoRefresh(cache, key) == cache

\* LRUCache.get: the cache after the call (a hit moves the key to the end)
LRUget(cache, key) ==
    IF LRUhas(cache, key)
    THEN Append(LRUdelete(cache, key), [key |-> key, value |-> LRUvalue(cache, key)])
    ELSE cache

\* set that never evicts
LRUsetNoEvict(cache, capacity, key, value) ==
    Append(LRUdelete(cache, key), [key |-> key, value |-> value])

\* set that evicts the most recently used key
LRUsetEvictNewest(cache, capacity, key, value) ==
    LET kept == IF LRUhas(cache, key) THEN LRUdelete(cache, key)
                ELSE IF Len(cache) >= capacity /\ Len(cache) > 0
                     THEN SubSeq(cache, 1, Len(cache) - 1)
                ELSE cache
    IN Append(kept, [key |-> key, value |-> value])

\* LRUCache.set
LRUset(cache, capacity, key, value) ==
    LET kept == IF LRUhas(cache, key) THEN LRUdelete(cache, key)
                ELSE IF Len(cache) >= capacity /\ Len(cache) > 0 THEN Tail(cache)
                ELSE cache
    IN Append(kept, [key |-> key, value |-> value])

(***************************************************************************)
(* MultiLevelCache helpers.                                                *)
(***************************************************************************)
\* isValid with the comparison off by one
isValidLate(entry, t) ==
    /\ entry.timestamp # 0
    /\ entry.ttl # 0
    /\ (t - entry.timestamp) <= entry.ttl

\* isValid(entry) at time t
isValid(entry, t) ==
    /\ entry.timestamp # 0
    /\ entry.ttl # 0
    /\ (t - entry.timestamp) < entry.ttl

\* does the sweep of cleanupL2Cache/cleanupL3Cache push this key?
SweepRemoves(s, t) ==
    /\ Truthy(s)
    /\ (JSONparseThrows(s) \/ ~isValid(JSONparse(s), t))

\* cleanupL2Cache
cleanupL2Cache(store, t) ==
    [sk \in DOMAIN store |->
        IF startsWith(sk, L2Prefix) /\ store[sk].kind # "none" /\ SweepRemoves(store[sk], t)
        THEN NoItem ELSE store[sk]]

\* cleanupL3Cache
cleanupL3Cache(store, t) ==
    [sk \in DOMAIN store |->
        IF startsWith(sk, L3Prefix) /\ store[sk].kind # "none" /\ SweepRemoves(store[sk], t)
        THEN NoItem ELSE store[sk]]

\* clearL2Cache
clearL2Cache(store) ==
    [sk \in DOMAIN store |-> IF startsWith(sk, L2Prefix) THEN NoItem ELSE store[sk]]

\* clearL3Cache
clearL3Cache(store) ==
    [sk \in DOMAIN store |-> IF startsWith(sk, L3Prefix) THEN NoItem ELSE store[sk]]

\* Storage.removeItem
removeItem(store, sk) == [store EXCEPT ![sk] = NoItem]

\* Storage.setItem when the store accepts the write
setItem(store, sk, s) == [store EXCEPT ![sk] = s]

(***************************************************************************)
(* History records.                                                        *)
(***************************************************************************)
NeverSet == [state |-> "never", data |-> Null, timestamp |-> 0, ttl |-> 0,
             persistent |-> FALSE, l2ok |-> FALSE, l3ok |-> FALSE, swept |-> FALSE]
Deleted == [NeverSet EXCEPT !.state = "deleted"]
Cleared == [NeverSet EXCEPT !.state = "cleared"]

\* the last call, when it was neither get nor set.  A get records its key,
\* the value it returned, the return statement it reached and the strings it
\* read; a set records its arguments and which writes the stores accepted;
\* threw tells whether the call ended by throwing to its caller
NoGet == [op |-> "other", key |-> "-", res |-> Undefined, branch |-> "none",
          read2 |-> NoItem, read3 |-> NoItem, threw |-> FALSE,
          data |-> Undefined, ttl |-> 0, persistent |-> FALSE,
          l2ok |-> TRUE, l3ok |-> TRUE]

\* the record of a call of set
SetCall(key, data, ttl, persistent, l2ok, l3ok) ==
    [NoGet EXCEPT !.op = "set", !.key = key, !.data = data, !.ttl = ttl,
                  !.persistent = persistent, !.l2ok = l2ok,
                  !.l3ok = (l3ok \/ ~persistent)]

\* cleanup() at time t: was the last set of the watched key expired by then?
Swept(ls, t) ==
    IF ls.state = "set" /\ (t - ls.timestamp) >= ls.ttl
    THEN [ls EXCEPT !.swept = TRUE] ELSE ls

(***************************************************************************)
(* Initial state: the module has just constructed the cache.  Tier 1 is    *)
(* empty; the storages exist before the cache does, and may hold under the *)
(* cache's prefix strings the cache did not write.                         *)
(***************************************************************************)
Leftovers == {NoItem, EmptyString, CorruptString, BareObject}

(***************************************************************************)
(* The structures of VirtualizedPropertyList.tsx and the histories of      *)
(* their calls before any call.  Each specification constructs the         *)
(* structure it is about and no other.                                     *)
(***************************************************************************)
\* the value of the variables of a structure that is not constructed
NotConstructed == "none"

\* no call of the stand-alone LRUCache yet
NoLRUCall == [op |-> "none", key |-> 0, res |-> Undefined]

\* recent: the keys in use, least recently used first, where a get hit and
\* a set are uses; fresh/onlySets: the keys set so far, while every call
\* since construction or clear() was a set of a key not set before;
\* got/next/full/n: the key of the last get hit, the least recently used
\* other key and whether the cache was full then, and the number of keys not
\* in the cache that were inserted since, with no other call in between
NoLRUHist == [recent |-> <<>>, fresh |-> <<>>, onlySets |-> TRUE,
              got |-> {}, next |-> {}, full |-> FALSE, n |-> 0,
              last |-> NoLRUCall]

\* no stand-alone LRUCache
LRUIdle ==
    /\ lru = NotConstructed
    /\ lruHist = NotConstructed

\* no call of the SpatialIndex yet
NoSpatialCall == [op |-> "none", id |-> "-", lat |-> 0, lng |-> 0,
                  radiusKm |-> 0, res |-> {}]

\* registered: the <<id, lat, lng>> added and not removed since
NoSpatialHist == [registered |-> {}, last |-> NoSpatialCall]

\* SpatialIndex.grid as constructed: a Map without keys
EmptyGrid == [key \in {} |-> {}]

\* no SpatialIndex
SpatialIdle ==
    /\ grid = NotConstructed
    /\ spatialHist = NotConstructed

\* no call of the SearchTrie yet
NoTrieCall == [op |-> "none", prefix |-> <<>>, limit |-> 0, res |-> {}]

\* added: the documents given to addProperty so far
NoTrieHist == [added |-> {}, last |-> NoTrieCall]

\* new TrieNode(): children is a Map of character -> TrieNode, of which the
\* model keeps the keys in insertion order (the child itself is the node at
\* the path one character longer)
TrieNode == [children |-> <<>>, propertyIds |-> {}]

\* SearchTrie.root as constructed: a TrieNode without children and ids
EmptyTrie == [path \in {<<>>} |-> TrieNode]

\* no SearchTrie
TrieIdle ==
    /\ root = NotConstructed
    /\ trieHist = NotConstructed

\* no call of the BloomFilter yet
NoBloomCall == [op |-> "none", item |-> <<>>, res |-> FALSE]

\* added: the items given to add so far
NoBloomHist == [added |-> {}, last |-> NoBloomCall]

\* no BloomFilter
BloomIdle ==
    /\ bloom = NotConstructed
    /\ bloomHist = NotConstructed

\* no PriorityQueue
QueueIdle ==
    /\ pq = NotConstructed
    /\ pqHist = NotConstructed

\* performance.ts is not loaded
MemoIdle ==
    /\ memo = NotConstructed
    /\ memoHist = NotConstructed

\* no BatchProcessor
BatchIdle ==
    /\ bp = NotConstructed
    /\ bpHist = NotConstructed

\* no MultiLevelCache
CacheIdle ==
    /\ l1Cache = NotConstructed
    /\ l2Cache = NotConstructed
    /\ l3Cache = NotConstructed
    /\ now = NotConstructed
    /\ lastSet = NotConstructed
    /\ last = NotConstructed

Init ==
    /\ l1Cache = <<>>
    /\ \E s \in Leftovers :
          /\ l2Cache = [sk \in L2Keys |->
                           IF sk = ForeignKey THEN CorruptString
                           ELSE IF sk = <<L2Prefix, WatchedKey>> THEN s ELSE NoItem]
          /\ l3Cache = [sk \in L3Keys |->
                           IF sk = ForeignKey THEN CorruptString
                           ELSE IF sk = <<L3Prefix, WatchedKey>> THEN s ELSE NoItem]
    /\ now = 1
    /\ lastSet = NeverSet
    /\ last = NoGet
    /\ LRUIdle /\ SpatialIdle /\ TrieIdle /\ BloomIdle /\ QueueIdle /\ MemoIdle /\ BatchIdle

(***************************************************************************)
(* MultiLevelCache.get(key).  l2ok tells whether sessionStorage accepts    *)
(* the setItem of the tier-3 promotion (it throws QuotaExceededError       *)
(* otherwise; that setItem stands inside the try block of the tier-3       *)
(* probe, so its catch clause handles the error).                          *)
(***************************************************************************)
\* the tier-2 probe finds a parsable, valid envelope
L2Hit(key) ==
    LET l2Data == l2Cache[<<L2Prefix, key>>] IN
    /\ Truthy(l2Data)
    /\ ~JSONparseThrows(l2Data)
    /\ isValid(JSONparse(l2Data), now)

\* the tier-3 probe finds a parsable, valid envelope
L3Hit(key) ==
    LET l3Data == l3Cache[<<L3Prefix, key>>] IN
    /\ Truthy(l3Data)
    /\ ~JSONparseThrows(l3Data)
    /\ isValid(JSONparse(l3Data), now)

\* sessionStorage after the tier-2 probe missed
L2AfterMiss(key) ==
    IF Truthy(l2Cache[<<L2Prefix, key>>])
    THEN removeItem(l2Cache, <<L2Prefix, key>>) ELSE l2Cache

\* localStorage after the tier-3 probe missed
L3AfterMiss(key) ==
    IF Truthy(l3Cache[<<L3Prefix, key>>])
    THEN removeItem(l3Cache, <<L3Prefix, key>>) ELSE l3Cache

\* get that serves a tier-1 hit only while the tier-2 envelope is valid
GetBranchL1Checked(key, l2ok) ==
    IF LRUgetResult(l1Cache, key) # Undefined /\ L2Hit(key) THEN "l1"
    ELSE IF L2Hit(key) THEN "l2"
    ELSE IF L3Hit(key) /\ l2ok THEN "l3"
    ELSE IF L3Hit(key) THEN "l3throw"
    ELSE "miss"

\* which return statement of get is reached: the tier-1 hit, the tier-2
\* hit, the tier-3 hit, the catch clause of the tier-3 probe entered from
\* the promotion's setItem, or the final `return null`
GetBranch(key, l2ok) ==
    IF LRUgetResult(l1Cache, key) # Undefined THEN "l1"
    ELSE IF L2Hit(key) THEN "l2"
    ELSE IF L3Hit(key) /\ l2ok THEN "l3"
    ELSE IF L3Hit(key) THEN "l3throw"
    ELSE "miss"

\* the value get returns
GetResult(key, l2ok) ==
    CASE GetBranch(key, l2ok) = "l1" -> LRUgetResult(l1Cache, key)
      [] GetBranch(key, l2ok) = "l2" -> JSONparse(l2Cache[<<L2Prefix, key>>]).data
      [] GetBranch(key, l2ok) = "l3" -> JSONparse(l3Cache[<<L3Prefix, key>>]).data
      [] OTHER -> Null

\* get without the promotion into tier 1
GetL1NoPromote(key, l2ok) == LRUget(l1Cache, key)

\* tier 1 after get
GetL1(key, l2ok) ==
    CASE GetBranch(key, l2ok) = "l2" ->
            LRUset(LRUget(l1Cache, key), L1Size, key,
                   JSONparse(l2Cache[<<L2Prefix, key>>]).data)
      [] GetBranch(key, l2ok) \in {"l3", "l3throw"} ->
            LRUset(LRUget(l1Cache, key), L1Size, key,
                   JSONparse(l3Cache[<<L3Prefix, key>>]).data)
      [] OTHER -> LRUget(l1Cache, key)

\* sessionStorage after get
GetL2(key, l2ok) ==
    CASE GetBranch(key, l2ok) \in {"l1", "l2"} -> l2Cache
      [] GetBranch(key, l2ok) = "l3" ->
            setItem(L2AfterMiss(key), <<L2Prefix, key>>, l3Cache[<<L3Prefix, key>>])
      [] OTHER -> L2AfterMiss(key)

\* localStorage after get
GetL3(key, l2ok) ==
    CASE GetBranch(key, l2ok) \in {"l1", "l2", "l3"} -> l3Cache
      [] GetBranch(key, l2ok) = "l3throw" -> removeItem(l3Cache, <<L3Prefix, key>>)
      [] OTHER -> L3AfterMiss(key)

Get(key, l2ok) ==
    /\ l1Cache' = GetL1(key, l2ok)
    /\ l2Cache' = GetL2(key, l2ok)
    /\ l3Cache' = GetL3(key, l2ok)
    /\ last' = [NoGet EXCEPT
                   !.op = "get", !.key = key, !.res = GetResult(key, l2ok),
                   !.branch = GetBranch(key, l2ok),
                   !.read2 = IF GetBranch(key, l2ok) = "l1" THEN NoItem
                             ELSE l2Cache[<<L2Prefix, key>>],
                   !.read3 = IF GetBranch(key, l2ok) \in {"l1", "l2"} THEN NoItem
                             ELSE l3Cache[<<L3Prefix, key>>]]
    /\ UNCHANGED <<now, lastSet, structureVars>>

(***************************************************************************)
(* MultiLevelCache.set(key, data, ttl, persistent).  l2ok / l3ok tell      *)
(* whether the storage accepts the setItem (QuotaExceededError otherwise). *)
(***************************************************************************)
\* set that writes tier 3 whether or not persistent is given
SetAlwaysPersistent(key, data, ttl, persistent, l2ok, l3ok) ==
    LET cacheEntry == [data |-> data, timestamp |-> now, ttl |-> ttl] IN
    /\ l1Cache' = LRUset(l1Cache, L1Size, key, data)
    /\ l2Cache' = IF l2ok
                  THEN setItem(l2Cache, <<L2Prefix, key>>, JSONstringify(cacheEntry))
                  ELSE cleanupL2Cache(l2Cache, now)
    /\ l3Cache' = IF l3ok
                  THEN setItem(l3Cache, <<L3Prefix, key>>, JSONstringify(cacheEntry))
                  ELSE cleanupL3Cache(l3Cache, now)
    /\ lastSet' = IF key # WatchedKey THEN lastSet
                  ELSE [state |-> "set", data |-> data, timestamp |-> now, ttl |-> ttl,
                        persistent |-> persistent, l2ok |-> l2ok,
                        l3ok |-> (persistent /\ l3ok), swept |-> FALSE]
    /\ last' = SetCall(key, data, ttl, persistent, l2ok, l3ok)
    /\ UNCHANGED <<now, structureVars>>

\* set without the try/catch around the tier-2 write: a rejected write
\* ends the call
SetUncaught(key, data, ttl, persistent, l2ok, l3ok) ==
    LET cacheEntry == [data |-> data, timestamp |-> now, ttl |-> ttl] IN
    /\ l1Cache' = LRUset(l1Cache, L1Size, key, data)
    /\ l2Cache' = IF l2ok
                  THEN setItem(l2Cache, <<L2Prefix, key>>, JSONstringify(cacheEntry))
                  ELSE l2Cache
    /\ l3Cache' = IF ~persistent \/ ~l2ok THEN l3Cache
                  ELSE IF l3ok
                  THEN setItem(l3Cache, <<L3Prefix, key>>, JSONstringify(cacheEntry))
                  ELSE cleanupL3Cache(l3Cache, now)
    /\ lastSet' = IF key # WatchedKey THEN lastSet
                  ELSE [state |-> "set", data |-> data, timestamp |-> now, ttl |-> ttl,
                        persistent |-> persistent, l2ok |-> l2ok,
                        l3ok |-> (persistent /\ l3ok), swept |-> FALSE]
    /\ last' = [SetCall(key, data, ttl, persistent, l2ok, l3ok) EXCEPT !.threw = ~l2ok]
    /\ UNCHANGED <<now, structureVars>>

Set(key, data, ttl, persistent, l2ok, l3ok) ==
    LET cacheEntry == [data |-> data, timestamp |-> now, ttl |-> ttl] IN
    /\ l1Cache' = LRUset(l1Cache, L1Size, key, data)
    /\ l2Cache' = IF l2ok
                  THEN setItem(l2Cache, <<L2Prefix, key>>, JSONstringify(cacheEntry))
                  ELSE cleanupL2Cache(l2Cache, now)
    /\ l3Cache' = IF ~persistent THEN l3Cache
                  ELSE IF l3ok
                  THEN setItem(l3Cache, <<L3Prefix, key>>, JSONstringify(cacheEntry))
                  ELSE cleanupL3Cache(l3Cache, now)
    /\ lastSet' = IF key # WatchedKey THEN lastSet
                  ELSE [state |-> "set", data |-> data, timestamp |-> now, ttl |-> ttl,
                        persistent |-> persistent, l2ok |-> l2ok,
                        l3ok |-> (persistent /\ l3ok), swept |-> FALSE]
    /\ last' = SetCall(key, data, ttl, persistent, l2ok, l3ok)
    /\ UNCHANGED <<now, structureVars>>

\* delete that forgets localStorage
DeleteNoL3(key) ==
    /\ l1Cache' = LRUdelete(l1Cache, key)
    /\ l2Cache' = removeItem(l2Cache, <<L2Prefix, key>>)
    /\ lastSet' = IF key = WatchedKey THEN Deleted ELSE lastSet
    /\ last' = NoGet
    /\ UNCHANGED <<l3Cache, now, structureVars>>

\* MultiLevelCache.delete(key)
Delete(key) ==
    /\ l1Cache' = LRUdelete(l1Cache, key)
    /\ l2Cache' = removeItem(l2Cache, <<L2Prefix, key>>)
    /\ l3Cache' = removeItem(l3Cache, <<L3Prefix, key>>)
    /\ lastSet' = IF key = WatchedKey THEN Deleted ELSE lastSet
    /\ last' = NoGet
    /\ UNCHANGED <<now, structureVars>>

\* MultiLevelCache.clear()
Clear ==
    /\ l1Cache' = <<>>
    /\ l2Cache' = clearL2Cache(l2Cache)
    /\ l3Cache' = clearL3Cache(l3Cache)
    /\ lastSet' = Cleared
    /\ last' = [NoGet EXCEPT !.op = "clear"]
    /\ UNCHANGED <<now, structureVars>>

\* cleanup() that sweeps sessionStorage only
CleanupNoL3 ==
    /\ l2Cache' = cleanupL2Cache(l2Cache, now)
    /\ lastSet' = Swept(lastSet, now)
    /\ last' = [NoGet EXCEPT !.op = "cleanup"]
    /\ UNCHANGED <<l1Cache, l3Cache, now, structureVars>>

\* MultiLevelCache.cleanup()
Cleanup ==
    /\ l2Cache' = cleanupL2Cache(l2Cache, now)
    /\ l3Cache' = cleanupL3Cache(l3Cache, now)
    /\ lastSet' = Swept(lastSet, now)
    /\ last' = [NoGet EXCEPT !.op = "cleanup"]
    /\ UNCHANGED <<l1Cache, now, structureVars>>

\* time passes between two calls
Tick ==
    /\ now < MaxTime
    /\ now' = now + 1
    /\ last' = NoGet
    /\ UNCHANGED <<l1Cache, l2Cache, l3Cache, lastSet, structureVars>>

DoGet == \E key \in Keys, l2ok \in BOOLEAN : Get(key, l2ok)
DoSet == \E key \in Keys, persistent \in BOOLEAN, l2ok \in BOOLEAN :
            \E data \in ValuesOf(key), ttl \in TTLsOf(key) :
            \E l3ok \in (IF persistent THEN BOOLEAN ELSE {TRUE}) :
                Set(key, data, ttl, persistent, l2ok, l3ok)
DoDelete == \E key \in Keys : Delete(key)

Next == DoGet \/ DoSet \/ DoDelete \/ Clear \/ Cleanup \/ Tick

Spec == Init /\ [][Next]_vars

\* a set whose writes the storages accept
DoSetAccepted == \E key \in Keys, persistent \in BOOLEAN :
                    \E data \in ValuesOf(key), ttl \in TTLsOf(key) :
                        Set(key, data, ttl, persistent, TRUE, TRUE)

\* globalCache with its timer, and callers that only set: time passes and
\* setInterval calls cleanup() again and again, so a cleanup that would
\* change the stores is not put off forever
TimerNext == DoSetAccepted \/ Cleanup \/ Tick

TimerSpec == Init /\ [][TimerNext]_vars /\ WF_vars(Cleanup)

(***************************************************************************)
(* Vocabulary of the claims.                                               *)
(***************************************************************************)
\* the storage slots of a key
L2Slot(key) == l2Cache[<<L2Prefix, key>>]
L3Slot(key) == l3Cache[<<L3Prefix, key>>]

\* s is an envelope that is invalid at time t: timestamp or ttl missing, or
\* t - timestamp >= ttl
EnvelopeInvalid(s, t) ==
    /\ s.kind = "json"
    /\ (s.timestamp = 0 \/ s.ttl = 0 \/ (t - s.timestamp) >= s.ttl)

\* s is an envelope that is valid at time t
EnvelopeValid(s, t) ==
    /\ s.kind = "json"
    /\ s.timestamp # 0 /\ s.ttl # 0
    /\ (t - s.timestamp) < s.ttl

\* s is an expired envelope that a set wrote
Expired(s, t) == EnvelopeInvalid(s, t) /\ s.timestamp # 0

\* the last call was get(key)
GotKey(key) == last.op = "get" /\ last.key = key

(***************************************************************************)
(* C1.  After set(k, v, ttl) an immediate get(k) returns v; once the ttl   *)
(* has elapsed and cleanup() has been called, get(k) returns not-found and *)
(* neither tier 2 nor tier 3 contains an entry for k.                      *)
(* The first half holds.  The second half fails: tier 1 holds the raw      *)
(* value and get returns a tier-1 hit without looking at any ttl.          *)
(***************************************************************************)
\* C1, first half: right after set(k, v, ttl), get(k) returns v
C1_ImmediateGet ==
    \A d \in Values, ttl \in TTLs, p \in BOOLEAN, ok2 \in BOOLEAN, ok3 \in BOOLEAN :
        Set(WatchedKey, d, ttl, p, ok2, ok3) =>
            \A ok \in BOOLEAN : GetResult(WatchedKey, ok)' = d

\* C1, second half: a get made after the ttl elapsed and cleanup() ran
C1_GoneOnceSwept ==
    (lastSet.state = "set" /\ lastSet.swept /\ GotKey(WatchedKey)) =>
        /\ last.res = Null
        /\ L2Slot(WatchedKey) = NoItem
        /\ L3Slot(WatchedKey) = NoItem

\* C1: every set of the watched key is followed by a state in which get
\* returns its value, and a get made once the ttl has elapsed and cleanup()
\* has run returns not-found and finds tiers 2 and 3 without the key
C1_SetGetExpireCleanup == [][C1_ImmediateGet /\ C1_GoneOnceSwept']_vars

(***************************************************************************)
(* C2.  get never returns the data of a tier-2 or tier-3 envelope that is  *)
(* invalid: when get reads such an envelope it removes the entry from its  *)
(* tier and falls through to the next tier, returning not-found when no    *)
(* lower tier holds a valid entry.                                         *)
(***************************************************************************)
\* C2: a get that read an invalid envelope did not serve it, left it
\* removed, and returned what the next tier holds, or not-found
C2_InvalidEnvelopeNeverReturned ==
    last.op = "get" =>
        /\ EnvelopeInvalid(last.read2, now) =>
              /\ last.branch # "l2"
              /\ \/ L2Slot(last.key) = NoItem
                 \/ last.branch = "l3" /\ L2Slot(last.key) = last.read3
              /\ EnvelopeValid(last.read3, now) =>
                    /\ last.branch \in {"l3", "l3throw"}
                    /\ last.branch = "l3" => last.res = JSONparse(last.read3).data
              /\ ~EnvelopeValid(last.read3, now) => last.res = Null
        /\ EnvelopeInvalid(last.read3, now) =>
              /\ last.branch = "miss"
              /\ L3Slot(last.key) = NoItem
              /\ last.res = Null

\* C2 witness: a get found an expired envelope in tier 2 and another in tier 3
C2_Witness ==
    /\ last.op = "get"
    /\ Expired(last.read2, now)
    /\ Expired(last.read3, now)
    /\ last.res = Null

(***************************************************************************)
(* C3.  Round trip: set(k, v, ttl) followed by get(k) while                *)
(* now - timestamp < ttl returns a value equal to v, whichever tier serves *)
(* the read.                                                               *)
(***************************************************************************)
\* the last set of the watched key is still within its ttl
WithinTTL == lastSet.state = "set" /\ (now - lastSet.timestamp) < lastSet.ttl

\* C3 as stated: a get within the ttl of the last set returns its value.
\* Fails for the number NaN, which JSON.stringify writes as null, and for a
\* set whose tier-2 write the store rejected
C3_RoundTrip ==
    (GotKey(WatchedKey) /\ WithinTTL) => last.res = lastSet.data

\* payloads that JSON.stringify / JSON.parse give back unchanged
JSONRepresentable(v) == v \notin {"NaN", Undefined}

\* C3 amended: for JSON-representable payloads and a set whose tier-2 write was
\* accepted, get within the ttl returns v from tier 1 or tier 2; NaN comes
\* back as null once tier 2 serves it
C3_RoundTripJSON ==
    (GotKey(WatchedKey) /\ WithinTTL /\ lastSet.l2ok) =>
        /\ last.branch \in {"l1", "l2"}
        /\ JSONRepresentable(lastSet.data) => last.res = lastSet.data
        /\ (lastSet.data = "NaN" /\ last.branch = "l2") => last.res = Null

\* C3 witness: a get within the ttl was served by parsing the tier-2 envelope of the set
C3_Witness ==
    /\ GotKey(WatchedKey) /\ WithinTTL /\ lastSet.l2ok
    /\ last.branch = "l2"
    /\ last.read2 = JSONstringify([data |-> lastSet.data,
                                   timestamp |-> lastSet.timestamp, ttl |-> lastSet.ttl])
    /\ last.res = "a"

(***************************************************************************)
(* C4.  After set(k, v, ttl, persistent=false), if k is then evicted from  *)
(* tier 1 by sets of other keys, get(k) within the ttl still returns v,    *)
(* served from tier 2 (tier 3 holds no entry for k), and after that get k  *)
(* is resident in tier 1 again.                                            *)
(***************************************************************************)
\* get(WatchedKey) found the key evicted from tier 1, within the ttl of its
\* last set, which was not persistent
EvictedGet ==
    /\ GotKey(WatchedKey) /\ WithinTTL /\ ~lastSet.persistent
    /\ last.branch # "l1"

\* C4 as stated: such a get returns v from tier 2, tier 3 holds no entry
\* for k, and k is back in tier 1.  Fails when the store rejected the tier-2
\* write of the set, when tier 3 holds an entry for k from before the set,
\* and for NaN
C4_EvictedServedFromL2 ==
    EvictedGet =>
        /\ last.res = lastSet.data
        /\ last.branch = "l2"
        /\ L3Slot(WatchedKey) = NoItem
        /\ LRUhas(l1Cache, WatchedKey)

\* C4 amended: when the tier-2 write was accepted and v is JSON-representable,
\* get returns v from tier 2 without reading tier 3, and k is back in tier 1
C4_EvictedServedFromL2Accepted ==
    (EvictedGet /\ lastSet.l2ok /\ JSONRepresentable(lastSet.data)) =>
        /\ last.res = lastSet.data
        /\ last.branch = "l2"
        /\ last.read3 = NoItem
        /\ LRUhas(l1Cache, WatchedKey)
        /\ LRUvalue(l1Cache, WatchedKey) = lastSet.data

\* C4 witness: the watched key was evicted by a set of the other key, then
\* read back
C4_Witness ==
    /\ EvictedGet /\ lastSet.l2ok
    /\ last.res = "a"
    /\ L2Slot("k2") # NoItem
    /\ l1Cache = <<[key |-> WatchedKey, value |-> "a"]>>

(***************************************************************************)
(* C5.  set(k, v, ttl, persistent) always writes k into tier 1 (raw value) *)
(* and tier 2 (envelope with a fresh timestamp and the given ttl); it      *)
(* writes tier 3 if and only if persistent is true, so a set with          *)
(* persistent=false leaves the tier-3 store unchanged.                     *)
(***************************************************************************)
\* the envelope set writes for v at time t
Envelope(v, t, ttl) == JSONstringify([data |-> v, timestamp |-> t, ttl |-> ttl])

\* what the claim says of one call of set
C5_Writes(key, v, ttl, persistent) ==
    /\ LRUhas(l1Cache', key) /\ LRUvalue(l1Cache', key) = v
    /\ l2Cache'[<<L2Prefix, key>>] = Envelope(v, now, ttl)
    /\ persistent => l3Cache'[<<L3Prefix, key>>] = Envelope(v, now, ttl)
    /\ ~persistent => l3Cache' = l3Cache

\* C5 as stated: every set writes tier 1 and tier 2, and tier 3 if and only
\* if persistent.  Fails when a store rejects the write
C5_SetWritesTiers ==
    [][last'.op = "set" =>
          C5_Writes(last'.key, last'.data, last'.ttl, last'.persistent)]_vars

\* what set does to the tiers, given which writes the stores accept
C5_WritesAccepted(key, v, ttl, persistent, l2ok, l3ok) ==
    /\ LRUhas(l1Cache', key) /\ LRUvalue(l1Cache', key) = v
    /\ l2ok => l2Cache' = [l2Cache EXCEPT ![<<L2Prefix, key>>] = Envelope(v, now, ttl)]
    /\ ~l2ok => l2Cache'[<<L2Prefix, key>>] \in {l2Cache[<<L2Prefix, key>>], NoItem}
    /\ (persistent /\ l3ok) =>
          l3Cache' = [l3Cache EXCEPT ![<<L3Prefix, key>>] = Envelope(v, now, ttl)]
    /\ (persistent /\ ~l3ok) =>
          l3Cache'[<<L3Prefix, key>>] \in {l3Cache[<<L3Prefix, key>>], NoItem}
    /\ ~persistent => l3Cache' = l3Cache

\* C5 amended: tier 1 always; tier 2 when sessionStorage accepts the write;
\* tier 3 if and only if persistent and localStorage accepts the write
C5_SetWritesAcceptedTiers ==
    [][last'.op = "set" =>
          C5_WritesAccepted(last'.key, last'.data, last'.ttl, last'.persistent,
                            last'.l2ok, last'.l3ok)]_vars

\* C5 witness: a set with persistent=false was accepted by tier 2 and left
\* tier 3 alone,
\* a leftover string included
C5_Witness ==
    /\ lastSet.state = "set" /\ ~lastSet.persistent /\ lastSet.l2ok
    /\ last.op = "set" /\ last.key = WatchedKey
    /\ L2Slot(WatchedKey) = Envelope(lastSet.data, lastSet.timestamp, lastSet.ttl)
    /\ L3Slot(WatchedKey) = CorruptString
    /\ l1Cache = <<[key |-> WatchedKey, value |-> lastSet.data]>>

(***************************************************************************)
(* C6.  get probes tier 1, then tier 2, then tier 3 and promotes hits      *)
(* upward: a valid tier-2 hit (tier-1 miss) leaves k resident in tier 1; a *)
(* valid tier-3 hit (tier-1 and tier-2 miss) leaves k resident in both     *)
(* tier 1 and tier 2; in both cases get returns the envelope's data.       *)
(* Fails for the tier-3 hit when sessionStorage rejects the promotion's    *)
(* setItem: the catch clause of the tier-3 probe removes the tier-3 entry  *)
(* and get returns null.                                                   *)
(***************************************************************************)
\* C6: a get that read a valid envelope returns its data and leaves the key
\* in tier 1 (tier-2 hit), or in tier 1 and tier 2 (tier-3 hit)
C6_PromotesHits ==
    last.op = "get" =>
        /\ EnvelopeValid(last.read2, now) =>
              /\ LRUhas(l1Cache, last.key)
              /\ LRUvalue(l1Cache, last.key) = JSONparse(last.read2).data
              /\ last.res = JSONparse(last.read2).data
        /\ (~EnvelopeValid(last.read2, now) /\ EnvelopeValid(last.read3, now)) =>
              /\ LRUhas(l1Cache, last.key)
              /\ LRUvalue(l1Cache, last.key) = JSONparse(last.read3).data
              /\ L2Slot(last.key) = last.read3
              /\ last.res = JSONparse(last.read3).data

(***************************************************************************)
(* C7.  delete(k) removes k from all three tiers and clear() removes every *)
(* cached key from all three tiers: after delete(k) (resp. clear()),       *)
(* get(k) returns not-found for that key (resp. every key) until the next  *)
(* set of it, whatever sequence of set/get/cleanup preceded.               *)
(***************************************************************************)
\* no tier holds the key
Gone(key) ==
    /\ ~LRUhas(l1Cache, key)
    /\ L2Slot(key) = NoItem
    /\ L3Slot(key) = NoItem

\* C7: from delete(k) or clear() to the next set of k, no tier holds k and
\* get(k) returns not-found; right after clear() this is so for every key
C7_DeleteClearRemove ==
    /\ lastSet.state \in {"deleted", "cleared"} =>
          /\ Gone(WatchedKey)
          /\ GotKey(WatchedKey) => last.res = Null
          /\ \A ok \in BOOLEAN : GetResult(WatchedKey, ok) = Null
    /\ last.op = "clear" =>
          \A key \in Keys : Gone(key) /\ GetResult(key, TRUE) = Null

\* C7 witness: a persistent set of the watched key, its delete and a get
\* that found
\* nothing, while another key stays cached
C7_Witness ==
    /\ lastSet.state = "deleted"
    /\ GotKey(WatchedKey) /\ last.res = Null
    /\ EnvelopeValid(L3Slot("k2"), now)
    /\ LRUhas(l1Cache, "k2")

(***************************************************************************)
(* C8.  set never throws to its caller: when the tier-2 or tier-3 store    *)
(* rejects the write, the error is caught, a cleanup pass of that same     *)
(* tier removes its expired entries, the write to that tier is dropped,    *)
(* and the tier-1 write (and the write to the other tier) still takes      *)
(* effect.                                                                 *)
(***************************************************************************)
\* a string the cleanup pass removes: an invalid envelope, or a non-empty
\* string that is no JSON
Removable(s, t) == EnvelopeInvalid(s, t) \/ s.kind = "corrupt"

\* new is old after a cleanup pass at time t over the keys with the prefix
SweptStore(old, new, prefix, t) ==
    \A sk \in DOMAIN old :
        new[sk] = IF startsWith(sk, prefix) /\ Removable(old[sk], t)
                  THEN NoItem ELSE old[sk]

C8_SetOutcome(key, v, ttl, persistent, l2ok, l3ok) ==
    /\ ~last'.threw
    /\ LRUhas(l1Cache', key) /\ LRUvalue(l1Cache', key) = v
    /\ ~l2ok => SweptStore(l2Cache, l2Cache', L2Prefix, now)
    /\ (persistent /\ ~l3ok) => SweptStore(l3Cache, l3Cache', L3Prefix, now)
    /\ (l2ok /\ persistent /\ ~l3ok) =>
          l2Cache'[<<L2Prefix, key>>] = Envelope(v, now, ttl)
    /\ (~l2ok /\ persistent /\ l3ok) =>
          l3Cache'[<<L3Prefix, key>>] = Envelope(v, now, ttl)

\* C8: no call of set throws; a rejected write leaves that tier swept of
\* its removable entries and otherwise unchanged, while tier 1 and the other
\* tier are written
C8_SetNeverThrows ==
    [][last'.op = "set" =>
          C8_SetOutcome(last'.key, last'.data, last'.ttl, last'.persistent,
                        last'.l2ok, last'.l3ok)]_vars

\* C8 witness: a persistent set of k2 whose tier-2 write was rejected: tier
\* 1 and tier 3
\* hold k2, tier 2 does not, and the pass over tier 2 removed the expired
\* envelope of the watched key, which tier 3 still holds
C8_Witness ==
    /\ last.op = "set" /\ last.key = "k2" /\ ~last.l2ok
    /\ last.persistent /\ last.l3ok /\ ~last.threw
    /\ LRUhas(l1Cache, "k2")
    /\ L2Slot("k2") = NoItem
    /\ L3Slot("k2") = Envelope(last.data, now, last.ttl)
    /\ lastSet.state = "set" /\ lastSet.l2ok /\ lastSet.l3ok /\ ~lastSet.swept
    /\ L2Slot(WatchedKey) = NoItem
    /\ Expired(L3Slot(WatchedKey), now)

(***************************************************************************)
(* C9.  get treats a tier-2 or tier-3 entry whose stored string is not a   *)
(* parsable JSON envelope as a miss: get does not throw, the corrupt entry *)
(* is removed from its tier, and the probe continues with the next tier    *)
(* (returning not-found if none holds a valid entry).                      *)
(* Fails for the empty string: `if (l2Data)` takes it for no entry, so it  *)
(* is a miss but is never removed.                                         *)
(***************************************************************************)
\* a stored string JSON.parse rejects
Unparsable(s) == s.kind \in {"corrupt", "empty"}

\* C9: a get that read an unparsable string does not throw, does not serve
\* it, leaves it removed and goes on to the next tier
C9_CorruptEntryIsMiss ==
    last.op = "get" =>
        /\ ~last.threw
        /\ Unparsable(last.read2) =>
              /\ last.branch # "l2"
              /\ \/ L2Slot(last.key) = NoItem
                 \/ last.branch = "l3" /\ L2Slot(last.key) = last.read3
              /\ ~EnvelopeValid(last.read3, now) => last.res = Null
        /\ Unparsable(last.read3) =>
              /\ L3Slot(last.key) = NoItem
              /\ last.res = Null

(***************************************************************************)
(* C10.  cleanup(): when it returns, every entry of tier 2 and tier 3      *)
(* under the cache's key prefix is a parsable, valid (unexpired) envelope; *)
(* entries that were valid before the sweep, keys without the prefix, and  *)
(* tier 1 are left unchanged.                                              *)
(* Fails for an entry holding the empty string, which the sweep skips      *)
(* (`if (data)`), as get does in C9.                                       *)
(***************************************************************************)
C10_AfterCleanup ==
    /\ \A sk \in L2Keys :
          /\ startsWith(sk, L2Prefix) =>
                (l2Cache'[sk] = NoItem \/ EnvelopeValid(l2Cache'[sk], now))
          /\ (EnvelopeValid(l2Cache[sk], now) \/ ~startsWith(sk, L2Prefix)) =>
                l2Cache'[sk] = l2Cache[sk]
    /\ \A sk \in L3Keys :
          /\ startsWith(sk, L3Prefix) =>
                (l3Cache'[sk] = NoItem \/ EnvelopeValid(l3Cache'[sk], now))
          /\ (EnvelopeValid(l3Cache[sk], now) \/ ~startsWith(sk, L3Prefix)) =>
                l3Cache'[sk] = l3Cache[sk]
    /\ l1Cache' = l1Cache

\* C10: every step of cleanup() ends with only valid envelopes under the
\* prefixes, and with valid entries, foreign keys and tier 1 unchanged
C10_CleanupLeavesValidOnly == [][last'.op = "cleanup" => C10_AfterCleanup]_vars

(***************************************************************************)
(* C11.  The global cache's cleanup sweep runs repeatedly on a fixed       *)
(* timer for the life of the process, so under a fair timer every expired  *)
(* tier-2/tier-3 entry of the global cache is eventually removed even if   *)
(* no get ever accesses its key.                                           *)
(***************************************************************************)
\* C11: under the timer, an expired envelope under a cache prefix does not
\* stay: its slot is eventually emptied (by the sweep, or by a get or a
\* delete of its key) or rewritten
C11_ExpiredEventuallyRemoved ==
    \A key \in Keys :
        /\ Expired(L2Slot(key), now) ~> ~Expired(L2Slot(key), now)
        /\ Expired(L3Slot(key), now) ~> ~Expired(L3Slot(key), now)

\* C11 witness: the sweep has just removed from both storages the expired
\* envelopes of a set that no get had touched: tier 1 still holds the key
C11_Witness ==
    /\ last.op = "cleanup"
    /\ lastSet.state = "set" /\ lastSet.swept /\ lastSet.l2ok /\ lastSet.l3ok
    /\ LRUhas(l1Cache, WatchedKey)
    /\ L2Slot(WatchedKey) = NoItem
    /\ L3Slot(WatchedKey) = NoItem

(***************************************************************************)
(* C12.  Tier-1 asymmetry: a tier-1 hit is returned without any TTL check, *)
(* so while k stays resident in tier 1 (not evicted by capacity, deleted   *)
(* or cleared) get(k) keeps returning its value even after the ttl given   *)
(* at set has elapsed and even after its tier-2/tier-3 envelopes were      *)
(* purged.                                                                 *)
(***************************************************************************)
\* C12: every get of a key resident in tier 1 returns the value tier 1
\* holds, whatever the time and the storages, leaves the key resident and
\* does not touch the storages
C12_Tier1HitIgnoresTTL ==
    [][\A key \in Keys :
          (LRUhas(l1Cache, key) /\ last'.op = "get" /\ last'.key = key) =>
              /\ last'.branch = "l1"
              /\ last'.res = LRUvalue(l1Cache, key)
              /\ LRUhas(l1Cache', key)
              /\ LRUvalue(l1Cache', key) = LRUvalue(l1Cache, key)
              /\ l2Cache' = l2Cache /\ l3Cache' = l3Cache]_vars

\* C12 witness: the ttl of the last set has elapsed, cleanup() has purged
\* its envelopes, and get still returns the value
C12_Witness ==
    /\ GotKey(WatchedKey) /\ last.branch = "l1"
    /\ lastSet.state = "set" /\ lastSet.swept /\ lastSet.l2ok
    /\ (now - lastSet.timestamp) >= lastSet.ttl
    /\ L2Slot(WatchedKey) = NoItem /\ L3Slot(WatchedKey) = NoItem
    /\ last.res = lastSet.data

(***************************************************************************)
(* The stand-alone LRUCache<K, V>.  The constructor stores whatever        *)
(* capacity it is given; the calls are get, set, has, delete, clear and    *)
(* size.                                                                   *)
(***************************************************************************)
\* the largest capacity given to the constructor
MaxCapacity == 2
\* capacities given to the constructor
Capacities == -1..MaxCapacity
\* keys and values given to the calls
LRUKeys == 1..(MaxCapacity + 1)
LRUValues == {"a", "b"}

\* LRUCache.size()
LRUsize(cache) == Len(cache)

\* the keys of the Map, in its iteration order, and as a set
KeySeq(cache) == [i \in 1..Len(cache) |-> cache[i].key]
KeySet(cache) == {cache[i].key : i \in 1..Len(cache)}

\* history: a use of key makes it the most recently used
Use(recent, key) == Append(SelectSeq(recent, LAMBDA k : k # key), key)

\* history: the keys the cache holds, least recently used first
Present(recent, cache) == SelectSeq(recent, LAMBDA k : LRUhas(cache, k))

\* history: no get hit is being followed
NoRun(h) == [h EXCEPT !.got = {}, !.next = {}, !.full = FALSE, !.n = 0]

\* new LRUCache(capacity)
LRUInit ==
    /\ \E c \in Capacities : lru = [capacity |-> c, cache |-> <<>>]
    /\ lruHist = NoLRUHist
    /\ CacheIdle /\ SpatialIdle /\ TrieIdle /\ BloomIdle /\ QueueIdle /\ MemoIdle /\ BatchIdle

\* LRUCache.get(key)
LRUCacheGet(key) ==
    LET hit == LRUhas(lru.cache, key)
        recent == IF hit THEN Use(lruHist.recent, key) ELSE lruHist.recent
        others == SelectSeq(Present(recent, lru.cache), LAMBDA k : k # key)
    IN
    /\ lru' = [lru EXCEPT !.cache = LRUget(lru.cache, key)]
    /\ lruHist' = [recent |-> recent, fresh |-> <<>>, onlySets |-> FALSE,
                   got |-> IF hit THEN {key} ELSE {},
                   next |-> IF hit /\ others # <<>> THEN {others[1]} ELSE {},
                   full |-> hit /\ LRUsize(lru.cache) = lru.capacity,
                   n |-> 0,
                   last |-> [op |-> "get", key |-> key,
                             res |-> LRUgetResult(lru.cache, key)]]
    /\ UNCHANGED <<cacheVars, spatialVars, trieVars, bloomVars, queueVars, memoVars, batchVars>>

\* LRUCache.set(key, value)
LRUCacheSet(key, value) ==
    LET distinct == lruHist.onlySets /\ \A i \in 1..Len(lruHist.fresh) : lruHist.fresh[i] # key
        follows == /\ lruHist.got # {}
                   /\ ~LRUhas(lru.cache, key)
                   /\ lruHist.n < lru.capacity
        h == IF follows THEN [lruHist EXCEPT !.n = lruHist.n + 1] ELSE NoRun(lruHist)
    IN
    /\ lru' = [lru EXCEPT !.cache = LRUset(lru.cache, lru.capacity, key, value)]
    /\ lruHist' = [h EXCEPT !.recent = Use(lruHist.recent, key),
                            !.fresh = IF distinct THEN Append(lruHist.fresh, key) ELSE <<>>,
                            !.onlySets = distinct,
                            !.last = [op |-> "set", key |-> key, res |-> Undefined]]
    /\ UNCHANGED <<cacheVars, spatialVars, trieVars, bloomVars, queueVars, memoVars, batchVars>>

\* LRUCache.has(key)
LRUCacheHas(key) ==
    /\ lruHist' = [lruHist EXCEPT
                      !.last = [op |-> "has", key |-> key,
                                res |-> IF LRUhas(lru.cache, key) THEN "true" ELSE "false"]]
    /\ UNCHANGED <<lru, cacheVars, spatialVars, trieVars, bloomVars, queueVars, memoVars, batchVars>>

\* LRUCache.delete(key)
LRUCacheDelete(key) ==
    /\ lru' = [lru EXCEPT !.cache = LRUdelete(lru.cache, key)]
    /\ lruHist' = [NoRun(lruHist) EXCEPT
                      !.recent = SelectSeq(lruHist.recent, LAMBDA k : k # key),
                      !.fresh = <<>>, !.onlySets = FALSE,
                      !.last = [op |-> "delete", key |-> key,
                                res |-> IF LRUhas(lru.cache, key) THEN "true" ELSE "false"]]
    /\ UNCHANGED <<cacheVars, spatialVars, trieVars, bloomVars, queueVars, memoVars, batchVars>>

\* LRUCache.clear()
LRUCacheClear ==
    /\ lru' = [lru EXCEPT !.cache = <<>>]
    /\ lruHist' = [NoLRUHist EXCEPT !.last = [NoLRUCall EXCEPT !.op = "clear"]]
    /\ UNCHANGED <<cacheVars, spatialVars, trieVars, bloomVars, queueVars, memoVars, batchVars>>

LRUNext ==
    \/ \E key \in LRUKeys : LRUCacheGet(key)
    \/ \E key \in LRUKeys, value \in LRUValues : LRUCacheSet(key, value)
    \/ \E key \in LRUKeys : LRUCacheHas(key)
    \/ \E key \in LRUKeys : LRUCacheDelete(key)
    \/ LRUCacheClear

LRUSpec == LRUInit /\ [][LRUNext]_vars

(***************************************************************************)
(* C13.  LRUCache: for a cache constructed with capacity c >= 1,           *)
(* size() <= c holds in every reachable state, after any sequence of get,  *)
(* set, has, delete and clear calls.                                       *)
(***************************************************************************)
\* C13: a cache of capacity c >= 1 never holds more than c entries
C13_SizeWithinCapacity ==
    lru.capacity >= 1 => LRUsize(lru.cache) <= lru.capacity

\* C13 witness: a full cache has just taken one more key
C13_Witness ==
    /\ lru.capacity = 2
    /\ lruHist.last.op = "set"
    /\ LRUsize(lru.cache) = 2
    /\ KeySet(lru.cache) # {lruHist.recent[i] : i \in 1..Len(lruHist.recent)}

(***************************************************************************)
(* C14.  LRUCache.set of a key not in the cache, when size equals          *)
(* capacity, evicts exactly one entry, the least-recently-used key, where  *)
(* get hits and sets count as uses, and then inserts the new key as        *)
(* most-recently-used; set of a key already present, or below capacity,    *)
(* evicts nothing.  In particular after c+1 distinct sets with no get the  *)
(* first-inserted key is absent and the other c are present.               *)
(***************************************************************************)
\* what a call of set(key, ..) does to a cache of capacity c >= 1
C14_SetStep(key) ==
    LET pre == lru.cache
        post == lru'.cache
        inUse == Present(lruHist.recent, pre)
    IN
    /\ (key \notin KeySet(pre) /\ LRUsize(pre) = lru.capacity) =>
          /\ KeySet(post) = (KeySet(pre) \ {inUse[1]}) \cup {key}
          /\ inUse[1] \notin KeySet(post)
          /\ LRUsize(post) = LRUsize(pre)
    /\ (key \in KeySet(pre) \/ LRUsize(pre) < lru.capacity) =>
          KeySet(post) = KeySet(pre) \cup {key}
    /\ post[Len(post)].key = key
    /\ KeySeq(post) = Present(lruHist'.recent, post)
    /\ \A k \in KeySet(post) \ {key} : LRUvalue(post, k) = LRUvalue(pre, k)

\* after c+1 sets of distinct keys and no other call, the first is gone
\* and the other c are held
C14_FirstInsertedGone ==
    (lru.capacity >= 1 /\ lruHist.onlySets /\ Len(lruHist.fresh) = lru.capacity + 1) =>
        /\ lruHist.fresh[1] \notin KeySet(lru.cache)
        /\ \A i \in 2..Len(lruHist.fresh) : lruHist.fresh[i] \in KeySet(lru.cache)

\* C14: a set into a full cache of a key it does not hold evicts the least
\* recently used key and nothing else, any other set evicts nothing, the
\* key set becomes the most recently used, and c+1 distinct sets leave the
\* first-inserted key absent and the other c present
C14_SetEvictsLeastRecentlyUsed ==
    [][/\ (lruHist'.last.op = "set" /\ lru.capacity >= 1) =>
              C14_SetStep(lruHist'.last.key)
       /\ C14_FirstInsertedGone']_vars

\* C14 witness: c+1 distinct keys were set into a cache of capacity 2
C14_Witness ==
    /\ lru.capacity = 2
    /\ lruHist.onlySets /\ Len(lruHist.fresh) = 3
    /\ KeySet(lru.cache) = {lruHist.fresh[2], lruHist.fresh[3]}

(***************************************************************************)
(* C15.  LRUCache with capacity c: getting a key and then inserting c more *)
(* distinct keys keeps the gotten key present (the get refreshed it to     *)
(* most-recent) while the next-least-recent key is evicted.                *)
(***************************************************************************)
\* a get hit has been followed by inserts of n keys the cache did not hold
Followed(n) == lru.capacity >= 1 /\ lruHist.got # {} /\ lruHist.n = n

\* C15 as stated: after the get and c inserts the gotten key is held and
\* the next-least-recent key is not.  Fails: c inserts into a cache of
\* capacity c evict every key it held, the gotten key last
C15_GottenKeySurvives ==
    Followed(lru.capacity) =>
        /\ lruHist.got \subseteq KeySet(lru.cache)
        /\ lruHist.next \cap KeySet(lru.cache) = {}

\* C15 amended: up to c-1 inserts keep the gotten key; the first insert
\* into a cache that was full evicts the next-least-recent key; the c-th
\* insert evicts the gotten key
C15_GottenKeySurvivesFewer ==
    /\ (\E n \in 0..(lru.capacity - 1) : Followed(n)) =>
          lruHist.got \subseteq KeySet(lru.cache)
    /\ (Followed(1) /\ lruHist.full) =>
          lruHist.next \cap KeySet(lru.cache) = {}
    /\ Followed(lru.capacity) => lruHist.got \cap KeySet(lru.cache) = {}

\* C15 witness: a full cache of capacity 2, a get of its least recently
\* used key, then one insert: the gotten key is held, the other is evicted
C15_Witness ==
    /\ lru.capacity = 2 /\ Followed(1) /\ lruHist.full
    /\ lruHist.next # {}
    /\ lruHist.got \subseteq KeySet(lru.cache)
    /\ lruHist.next \cap KeySet(lru.cache) = {}
    /\ lruHist.last.op = "set"

(***************************************************************************)
(* C16.  Constructing an LRUCache with capacity <= 0 is a construction-    *)
(* time error: no usable cache instance results, so no instance with       *)
(* capacity <= 0 can ever hold an entry.                                   *)
(* Fails: the constructor stores any number, and set on such an instance   *)
(* finds no first key to delete and inserts the entry.                     *)
(***************************************************************************)
\* C16: an instance built with capacity <= 0 never holds an entry
C16_NoInstanceBelowOne ==
    lru.capacity <= 0 => LRUsize(lru.cache) = 0

(***************************************************************************)
(* The MultiLevelCache with callers that store null and undefined.         *)
(***************************************************************************)
NullishValues == {Null, Undefined}

DoSetNullish == \E key \in Keys, persistent \in BOOLEAN :
                   \E data \in NullishValues, ttl \in TTLsOf(key) :
                       Set(key, data, ttl, persistent, TRUE, TRUE)

NullishNext == DoSetNullish \/ DoGet \/ Tick

NullishSpec == Init /\ [][NullishNext]_vars

(***************************************************************************)
(* C17.  LRUCache.get returns, on a miss, an absent signal that is         *)
(* distinguishable from every value that can be stored: get(k) for a key   *)
(* that was set to undefined/null yields a result different from get(k)    *)
(* for a key that was never set, and MultiLevelCache.get serves such a     *)
(* stored key from tier 1 as a hit.                                        *)
(* Fails for undefined: LRUCache.get returns undefined on a miss, and      *)
(* MultiLevelCache.get takes a tier-1 result of undefined for a miss.      *)
(***************************************************************************)
\* C17: right after set(k, null) or set(k, undefined), LRUCache.get(k) on
\* tier 1 differs from LRUCache.get(k) on a cache that never held k, and a
\* MultiLevelCache.get(k) made next is served by the tier-1 return
C17_AbsentDistinguishable ==
    [][(last.op = "set" /\ last.data \in NullishValues) =>
           /\ LRUhas(l1Cache, last.key)
           /\ LRUgetResult(l1Cache, last.key) # LRUgetResult(<<>>, last.key)
           /\ (last'.op = "get" /\ last'.key = last.key) =>
                  (last'.branch = "l1" /\ last'.res = last.data)]_vars

(***************************************************************************)
(* SpatialIndex, constructed with the default gridSize of 0.01 degrees.    *)
(* Coordinates are given in hundredths of a degree: the argument n stands  *)
(* for the double n/100.  The doubles the index computes with are the      *)
(* arguments and the sums lat + i * gridSize of findNearby; Double(n, i)   *)
(* stands for the double (n/100) + i * 0.01, and Double(n, 0) for n/100.   *)
(***************************************************************************)
\* the largest coordinate given to the calls, in hundredths of a degree
MaxCoordinate == 3
\* the largest radius given to findNearby, in km
MaxRadiusKm == 2
\* the number of registrations the callers keep at once
MaxProperties == 2

PropertyIds == {"a", "b"}
Lats == 1..MaxCoordinate
Lngs == (MaxCoordinate - 1)..MaxCoordinate
Radii == 0..MaxRadiusKm

Double(n, i) == <<n, i>>

\* the doubles d for which d / 0.01 falls just below the integer n + i, in
\* IEEE-754 double arithmetic, for 0 <= n <= 6 and -4 <= i <= 4: for
\* instance 0.03 - 0.01 is 0.019999999999999997
RoundedDown ==
    {<<3, -4>>, <<3, -2>>, <<3, -1>>, <<6, -4>>, <<6, -2>>, <<6, -1>>, <<6, 1>>}

\* Math.floor(d / this.gridSize)
MathFloorQuotient(d) ==
    IF d \in RoundedDown THEN d[1] + d[2] - 1 ELSE d[1] + d[2]

\* getGridKey(lat, lng): the pair stands for the string `${gridLat},${gridLng}`
getGridKey(lat, lng) == <<MathFloorQuotient(lat), MathFloorQuotient(lng)>>

\* addProperty(id, lat, lng)
addProperty(g, id, lat, lng) ==
    LET key == getGridKey(lat, lng) IN
    [k \in DOMAIN g \cup {key} |->
        IF k = key THEN (IF key \in DOMAIN g THEN g[key] ELSE {}) \cup {id}
        ELSE g[k]]

\* removeProperty that leaves the id in its cell
removePropertyKeepsId(g, id, lat, lng) == g

\* removeProperty that keeps a cell it has emptied
removePropertyKeepsCell(g, id, lat, lng) ==
    LET key == getGridKey(lat, lng) IN
    IF key \notin DOMAIN g THEN g
    ELSE [g EXCEPT ![key] = g[key] \ {id}]

\* removeProperty(id, lat, lng)
removeProperty(g, id, lat, lng) ==
    LET key == getGridKey(lat, lng) IN
    IF key \notin DOMAIN g THEN g
    ELSE IF g[key] \ {id} = {} THEN [k \in DOMAIN g \ {key} |-> g[k]]
    ELSE [g EXCEPT ![key] = g[key] \ {id}]

\* Math.ceil(radiusKm / (this.gridSize * 111)) for a whole number of km
gridRadius(radiusKm) == (100 * radiusKm + 110) \div 111

\* findNearby(lat, lng, radiusKm), lat and lng in hundredths of a degree
findNearby(g, lat, lng, radiusKm) ==
    LET r == gridRadius(radiusKm)
        cell(i, j) == getGridKey(Double(lat, i), Double(lng, j))
    IN UNION {IF cell(i, j) \in DOMAIN g THEN g[cell(i, j)] ELSE {} :
                 i \in (-r)..r, j \in (-r)..r}

\* new SpatialIndex()
SpatialInit ==
    /\ grid = EmptyGrid
    /\ spatialHist = NoSpatialHist
    /\ CacheIdle /\ LRUIdle /\ TrieIdle /\ BloomIdle /\ QueueIdle /\ MemoIdle /\ BatchIdle

SpatialAdd(id, lat, lng) ==
    /\ Cardinality(spatialHist.registered \cup {<<id, lat, lng>>}) <= MaxProperties
    /\ grid' = addProperty(grid, id, Double(lat, 0), Double(lng, 0))
    /\ spatialHist' = [registered |-> spatialHist.registered \cup {<<id, lat, lng>>},
                       last |-> [NoSpatialCall EXCEPT !.op = "add", !.id = id,
                                                      !.lat = lat, !.lng = lng]]
    /\ UNCHANGED <<cacheVars, lruVars, trieVars, bloomVars, queueVars, memoVars, batchVars>>

SpatialRemove(id, lat, lng) ==
    /\ grid' = removeProperty(grid, id, Double(lat, 0), Double(lng, 0))
    /\ spatialHist' = [registered |-> spatialHist.registered \ {<<id, lat, lng>>},
                       last |-> [NoSpatialCall EXCEPT
                                    !.op = "remove", !.id = id, !.lat = lat, !.lng = lng,
                                    !.res = {id} \cap {t[1] : t \in
                                        spatialHist.registered \cap {<<id, lat, lng>>}}]]
    /\ UNCHANGED <<cacheVars, lruVars, trieVars, bloomVars, queueVars, memoVars, batchVars>>

SpatialFind(lat, lng, radiusKm) ==
    /\ spatialHist' = [spatialHist EXCEPT
                          !.last = [NoSpatialCall EXCEPT
                                       !.op = "find", !.lat = lat, !.lng = lng,
                                       !.radiusKm = radiusKm,
                                       !.res = findNearby(grid, lat, lng, radiusKm)]]
    /\ UNCHANGED <<grid, cacheVars, lruVars, trieVars, bloomVars, queueVars, memoVars, batchVars>>

SpatialNext ==
    \/ \E id \in PropertyIds, lat \in Lats, lng \in Lngs : SpatialAdd(id, lat, lng)
    \/ \E id \in PropertyIds, lat \in Lats, lng \in Lngs : SpatialRemove(id, lat, lng)
    \/ \E lat \in Lats, lng \in Lngs, radiusKm \in Radii : SpatialFind(lat, lng, radiusKm)

SpatialSpec == SpatialInit /\ [][SpatialNext]_vars

(***************************************************************************)
(* C18.  SpatialIndex: for any id, location and radiusKm >= 0, after       *)
(* addProperty(id, lat, lng) findNearby(lat, lng, radiusKm) contains id;   *)
(* after a following removeProperty(id, lat, lng) with the same            *)
(* coordinates, the same query no longer contains id (id not being         *)
(* registered at any other location).                                      *)
(***************************************************************************)
\* the id is registered somewhere
Registered(h, id) == \E t \in h.registered : t[1] = id

\* C18: right after addProperty(id, lat, lng) every findNearby(lat, lng, r)
\* contains id; right after removeProperty(id, lat, lng) of a registration,
\* with id registered nowhere else, no findNearby(lat, lng, r) contains id
C18_AddFindRemove ==
    [][LET call == spatialHist'.last IN
       /\ call.op = "add" =>
             \A radiusKm \in Radii :
                 call.id \in findNearby(grid', call.lat, call.lng, radiusKm)
       /\ (call.op = "remove" /\ call.res = {call.id}
                              /\ ~Registered(spatialHist', call.id)) =>
             \A radiusKm \in Radii :
                 call.id \notin findNearby(grid', call.lat, call.lng, radiusKm)]_vars

\* C18 witness: "a" was added and then removed at the same place, where
\* "b" keeps the cell alive
C18_Witness ==
    /\ spatialHist.last.op = "remove"
    /\ spatialHist.last.id = "a" /\ spatialHist.last.res = {"a"}
    /\ ~Registered(spatialHist, "a")
    /\ <<"b", spatialHist.last.lat, spatialHist.last.lng>> \in spatialHist.registered
    /\ findNearby(grid, spatialHist.last.lat, spatialHist.last.lng, 0) = {"b"}

(***************************************************************************)
(* C19.  SpatialIndex.findNearby(lat, lng, radiusKm) returns exactly the   *)
(* union of the buckets whose grid coordinates differ from the query       *)
(* point's cell by at most r in each axis,                                 *)
(* r = ceil(radiusKm / (gridSize * 111)), the (2r+1)^2 cells of the square *)
(* neighbourhood, with no id from any bucket outside that square and no    *)
(* duplicates; on an empty index it returns the empty set.                 *)
(* Fails: findNearby computes the cell of lat + i * gridSize, and in       *)
(* double arithmetic that is not always the cell of lat plus i.            *)
(***************************************************************************)
\* the ids of the buckets within r cells of the cell of (lat, lng)
SquareNeighbourhood(g, lat, lng, r) ==
    LET centre == getGridKey(Double(lat, 0), Double(lng, 0))
        near(a, b) == a - b <= r /\ b - a <= r
    IN UNION {g[key] : key \in {k \in DOMAIN g :
                                   near(k[1], centre[1]) /\ near(k[2], centre[2])}}

\* C19: the result of a findNearby is the union of the buckets of the
\* square neighbourhood of the query point's cell
C19_FindNearbyIsSquare ==
    spatialHist.last.op = "find" =>
        spatialHist.last.res =
            SquareNeighbourhood(grid, spatialHist.last.lat, spatialHist.last.lng,
                                gridRadius(spatialHist.last.radiusKm))

(***************************************************************************)
(* SearchTrie.  A string is the sequence of its characters.  The trie is   *)
(* the function from the path of each TrieNode (the characters from the    *)
(* root down to it) to the TrieNode; the root is the empty path.            *)
(***************************************************************************)
\* the number of documents the callers add
MaxDocuments == 2

DocumentIds == {"p1", "p2"}
\* "aba", "Abb ab", " bab"
Titles == {<<"a", "b", "a">>, <<"A", "b", "b", " ", "a", "b">>, <<" ", "b", "a", "b">>}
\* "ab a", "ba"
Cities == {<<"a", "b", " ", "a">>, <<"b", "a">>}
\* [], ["Baa"]
AmenityLists == {<<>>, << <<"B", "a", "a">> >>}
Documents == [id : DocumentIds, title : Titles, city : Cities, amenities : AmenityLists]
\* the limits the callers give to getSuggestions; 10 is the default
Limits == {0, 2, 10}
\* the prefixes they give to it: "a", "ab", "AB", "ba", "bb"
SuggestPrefixes == {<<"a">>, <<"a", "b">>, <<"A", "B">>, <<"b", "a">>, <<"b", "b">>}
\* "a", "ab", "AB", "aba", "ba", "ab ", "bb", "Ba"
SearchPrefixes == {<<"a">>, <<"a", "b">>, <<"A", "B">>, <<"a", "b", "a">>, <<"b", "a">>,
                   <<"a", "b", " ">>, <<"b", "b">>, <<"B", "a">>}

\* a character /\s/ matches
IsWhitespace(char) == char = " "

\* String.prototype.toLowerCase
toLowerCase(str) ==
    [i \in 1..Len(str) |->
        CASE str[i] = "A" -> "a"
          [] str[i] = "B" -> "b"
          [] OTHER -> str[i]]

\* the index of the first character of str at or after i that is (ws = TRUE)
\* or is not (ws = FALSE) whitespace; Len(str) + 1 when there is none
RECURSIVE Scan(_, _, _)
Scan(str, i, ws) ==
    IF i > Len(str) \/ IsWhitespace(str[i]) = ws THEN i
    ELSE Scan(str, i + 1, ws)

\* str.split(/\s+/)
RECURSIVE split(_)
split(str) ==
    LET i == Scan(str, 1, TRUE) IN
    IF i > Len(str) THEN <<str>>
    ELSE <<SubSeq(str, 1, i - 1)>>
             \o split(SubSeq(str, Scan(str, i, FALSE), Len(str)))

\* the array `words` of addProperty
words(property) ==
    split(toLowerCase(property.title))
        \o <<toLowerCase(property.city)>>
        \o [i \in 1..Len(property.amenities) |-> toLowerCase(property.amenities[i])]

\* current.children.has(char) for the node `current` at path
hasChild(t, path, char) == \E i \in 1..Len(t[path].children) : t[path].children[i] = char

\* the children of the node at path once the loop of insertWord(word) has
\* passed it: the next character of the word is set as a new last key when
\* the node is on the way of the word and has no such child
childrenAfter(t, word, path) ==
    LET old == IF path \in DOMAIN t THEN t[path].children ELSE <<>> IN
    IF /\ Len(path) < Len(word)
       /\ path = SubSeq(word, 1, Len(path))
       /\ SubSeq(word, 1, Len(path) + 1) \notin DOMAIN t
    THEN Append(old, word[Len(path) + 1])
    ELSE old

\* insertWord that records the id at the word's last node only
insertWordLastNode(t, word, propertyId) ==
    LET onPath == {SubSeq(word, 1, n) : n \in 1..Len(word)} IN
    [path \in DOMAIN t \cup onPath |->
        [children |-> childrenAfter(t, word, path),
         propertyIds |-> (IF path \in DOMAIN t THEN t[path].propertyIds ELSE {})
                             \cup (IF path = word THEN {propertyId} ELSE {})]]

\* insertWord(word, propertyId): every node on the path of the word exists
\* afterwards and holds the id
insertWord(t, word, propertyId) ==
    LET onPath == {SubSeq(word, 1, n) : n \in 1..Len(word)} IN
    [path \in DOMAIN t \cup onPath |->
        [children |-> childrenAfter(t, word, path),
         propertyIds |-> (IF path \in DOMAIN t THEN t[path].propertyIds ELSE {})
                             \cup (IF path \in onPath THEN {propertyId} ELSE {})]]

\* words.forEach of addProperty
RECURSIVE insertWords(_, _, _)
insertWords(t, ws, propertyId) ==
    IF ws = <<>> THEN t
    ELSE insertWords(IF Len(Head(ws)) > 2 THEN insertWord(t, Head(ws), propertyId) ELSE t,
                     Tail(ws), propertyId)

\* SearchTrie.addProperty(property)
addPropertyWords(t, property) == insertWords(t, words(property), property.id)

\* the loop `for (const char of lowerPrefix)` of search and getSuggestions
\* ends at a node: no child on the way is missing
descends(t, lowerPrefix) ==
    \A n \in 1..Len(lowerPrefix) :
        hasChild(t, SubSeq(lowerPrefix, 1, n - 1), lowerPrefix[n])

\* SearchTrie.search(prefix): the descent from the root finds the node of
\* the lower-cased prefix or a missing child
search(t, prefix) ==
    IF Len(prefix) < 2 THEN {}
    ELSE IF descends(t, toLowerCase(prefix))
         THEN t[toLowerCase(prefix)].propertyIds
    ELSE {}

\* collectWords(node, prefix, suggestions, limit) for the node at the path
\* `prefix`: the array `suggestions` afterwards
RECURSIVE collectWords(_, _, _, _)
\* the loop over node.children of collectWords, from the keys `chars` on
RECURSIVE collectChildren(_, _, _, _, _)
collectWords(t, prefix, suggestions, limit) ==
    IF Len(suggestions) >= limit THEN suggestions
    ELSE collectChildren(t, prefix, t[prefix].children,
                         IF t[prefix].propertyIds # {}
                         THEN Append(suggestions, prefix) ELSE suggestions,
                         limit)

collectChildren(t, prefix, chars, suggestions, limit) ==
    IF chars = <<>> THEN suggestions
    ELSE collectChildren(t, prefix, Tail(chars),
                         collectWords(t, Append(prefix, Head(chars)), suggestions, limit),
                         limit)

\* SearchTrie.getSuggestions(prefix, limit)
getSuggestions(t, prefix, limit) ==
    IF Len(prefix) < 2 THEN <<>>
    ELSE IF descends(t, toLowerCase(prefix))
         THEN collectWords(t, toLowerCase(prefix), <<>>, limit)
    ELSE <<>>

\* new SearchTrie()
TrieInit ==
    /\ root = EmptyTrie
    /\ trieHist = NoTrieHist
    /\ CacheIdle /\ LRUIdle /\ SpatialIdle /\ BloomIdle /\ QueueIdle /\ MemoIdle /\ BatchIdle

TrieAdd(property) ==
    /\ Cardinality(trieHist.added \cup {property}) <= MaxDocuments
    /\ root' = addPropertyWords(root, property)
    /\ trieHist' = [added |-> trieHist.added \cup {property},
                    last |-> [NoTrieCall EXCEPT !.op = "add"]]
    /\ UNCHANGED <<cacheVars, lruVars, spatialVars, bloomVars, queueVars, memoVars, batchVars>>

TrieSearch(prefix) ==
    /\ trieHist' = [trieHist EXCEPT
                       !.last = [op |-> "search", prefix |-> prefix, limit |-> 0,
                                 res |-> search(root, prefix)]]
    /\ UNCHANGED <<root, cacheVars, lruVars, spatialVars, bloomVars, queueVars, memoVars, batchVars>>

TrieSuggest(prefix, limit) ==
    /\ trieHist' = [trieHist EXCEPT
                       !.last = [op |-> "getSuggestions", prefix |-> prefix,
                                 limit |-> limit,
                                 res |-> getSuggestions(root, prefix, limit)]]
    /\ UNCHANGED <<root, cacheVars, lruVars, spatialVars, bloomVars, queueVars, memoVars, batchVars>>

TrieNext ==
    \/ \E property \in Documents : TrieAdd(property)
    \/ \E prefix \in SearchPrefixes : TrieSearch(prefix)
    \/ \E prefix \in SuggestPrefixes, limit \in Limits : TrieSuggest(prefix, limit)

TrieSpec == TrieInit /\ [][TrieNext]_vars

(***************************************************************************)
(* C20.  SearchTrie.search(prefix), for a prefix of length >= 2, returns   *)
(* exactly the set of ids of the documents added so far that have an       *)
(* indexed token (a whitespace-split title word, the city string, or an    *)
(* amenity string, lower-cased, of length > 2) starting with the           *)
(* lower-cased prefix; it returns the empty set when the prefix is shorter *)
(* than 2 characters or matches no indexed token.                          *)
(***************************************************************************)
\* the whitespace-split words of a string: its maximal runs of characters
\* that are not whitespace
WordsOf(str) ==
    {SubSeq(str, i, j) : <<i, j>> \in
        {ij \in (1..Len(str)) \X (1..Len(str)) :
            /\ ij[1] <= ij[2]
            /\ \A n \in ij[1]..ij[2] : ~IsWhitespace(str[n])
            /\ (ij[1] = 1 \/ IsWhitespace(str[ij[1] - 1]))
            /\ (ij[2] = Len(str) \/ IsWhitespace(str[ij[2] + 1]))}}

\* the indexed tokens of a document
IndexedTokens(property) ==
    {token \in {toLowerCase(w) : w \in WordsOf(property.title)}
               \cup {toLowerCase(property.city)}
               \cup {toLowerCase(property.amenities[i]) : i \in 1..Len(property.amenities)} :
        Len(token) > 2}

\* token starts with prefix
StartsWith(token, prefix) ==
    Len(prefix) <= Len(token) /\ SubSeq(token, 1, Len(prefix)) = prefix

\* the ids of the documents added so far with an indexed token that starts
\* with the lower-cased prefix
Matching(prefix) ==
    {property.id : property \in
        {d \in trieHist.added :
            \E token \in IndexedTokens(d) : StartsWith(token, toLowerCase(prefix))}}

\* C20: the result of a search is the set of matching ids when the prefix
\* has 2 characters or more, and the empty set otherwise
C20_SearchFindsPrefixMatches ==
    trieHist.last.op = "search" =>
        trieHist.last.res =
            IF Len(trieHist.last.prefix) >= 2 THEN Matching(trieHist.last.prefix) ELSE {}

\* C20 witness: with documents of both ids added, the search for "AB" finds
\* one of them
C20_Witness ==
    /\ trieHist.last.op = "search"
    /\ trieHist.last.prefix = <<"A", "B">>
    /\ trieHist.last.res = {"p1"}
    /\ {d.id : d \in trieHist.added} = DocumentIds

(***************************************************************************)
(* C21.  SearchTrie.getSuggestions(prefix, limit) returns at most limit    *)
(* strings, pairwise distinct, each an indexed token of some added         *)
(* document that starts with the lower-cased prefix; it returns the empty  *)
(* sequence for a prefix shorter than 2 characters or with no matching     *)
(* path.                                                                   *)
(***************************************************************************)
\* the indexed tokens of the documents added so far
AllIndexedTokens == UNION {IndexedTokens(d) : d \in trieHist.added}

\* C21: every result of getSuggestions is as the claim says
C21_SuggestionsAreTokens ==
    trieHist.last.op = "getSuggestions" =>
        LET res == trieHist.last.res
            lowerPrefix == toLowerCase(trieHist.last.prefix)
        IN /\ Len(res) <= trieHist.last.limit
           /\ \A i, j \in 1..Len(res) : res[i] = res[j] => i = j
           /\ \A i \in 1..Len(res) :
                  res[i] \in AllIndexedTokens /\ StartsWith(res[i], lowerPrefix)
           /\ (Len(lowerPrefix) < 2
                   \/ ~\E token \in AllIndexedTokens : StartsWith(token, lowerPrefix))
                  => res = <<>>

(***************************************************************************)
(* BloomFilter.  A string is the sequence of its characters.  The hash is  *)
(* kept as a 32-bit word in two 16-bit halves [hi, lo], the value of the   *)
(* int32 being hi * 2^16 + lo when hi < 2^15 and that minus 2^32           *)
(* otherwise.                                                              *)
(***************************************************************************)
\* the constructor arguments the callers give; the rate is written as in
\* the source text ("0.01" is the default)
ExpectedElements == {1, 2}
FalsePositiveRates == {"0.5", "0.01", "1"}
\* "", "a", "p1", "nyumba", "zzzzzzz"
BloomItems == {<<>>, <<"a">>, <<"p", "1">>, <<"n", "y", "u", "m", "b", "a">>,
               <<"z", "z", "z", "z", "z", "z", "z">>}

\* this.size of the constructor:
\* Math.ceil((-expectedElements * Math.log(falsePositiveRate)) / (Math.log(2) ** 2))
\* in double arithmetic, for the arguments above
BloomSize(expectedElements, falsePositiveRate) ==
    CASE falsePositiveRate = "0.5" /\ expectedElements = 1 -> 2
      [] falsePositiveRate = "0.5" /\ expectedElements = 2 -> 3
      [] falsePositiveRate = "0.01" /\ expectedElements = 1 -> 10
      [] falsePositiveRate = "0.01" /\ expectedElements = 2 -> 20
      [] falsePositiveRate = "1" -> 0

\* this.hashFunctions of the constructor:
\* Math.ceil((this.size / expectedElements) * Math.log(2))
BloomHashFunctions(expectedElements, falsePositiveRate) ==
    CASE falsePositiveRate = "0.5" -> 2
      [] falsePositiveRate = "0.01" -> 7
      [] falsePositiveRate = "1" -> 0

\* item.charCodeAt(i) of a character of the items above
charCode(char) ==
    CASE char = "1" -> 49
      [] char = "a" -> 97
      [] char = "b" -> 98
      [] char = "m" -> 109
      [] char = "n" -> 110
      [] char = "p" -> 112
      [] char = "u" -> 117
      [] char = "y" -> 121
      [] char = "z" -> 122

\* 2^16, the size of a half of a 32-bit word
HalfWord == 65536

\* ((hash << 5) + hash + code) & 0xffffffff: 33 * hash + code modulo 2^32
hashStep(hash, code) ==
    LET low == 33 * hash.lo + code IN
    [hi |-> (33 * hash.hi + low \div HalfWord) % HalfWord, lo |-> low % HalfWord]

\* the variable `hash` after the loop over the characters of item from i on
RECURSIVE hashLoop(_, _, _)
hashLoop(hash, item, i) ==
    IF i > Len(item) THEN hash
    ELSE hashLoop(hashStep(hash, charCode(item[i])), item, i + 1)

\* Math.abs(hash) % size: for a negative int32, Math.abs is 2^32 minus the
\* unsigned word
MathAbsModulo(hash, size) ==
    IF hash.hi < HalfWord \div 2
    THEN (((hash.hi * HalfWord) % size) + hash.lo) % size
    ELSE ((((HalfWord - 1 - hash.hi) * HalfWord) % size) + (HalfWord - hash.lo)) % size

\* BloomFilter.hash(item, seed)
hash(item, seed, size) ==
    MathAbsModulo(hashLoop([hi |-> 0, lo |-> seed], item, 1), size)

\* add that sets the bit of the first hash function only
addFirstHashOnly(b, item) ==
    [b EXCEPT !.bitArray =
        [index \in DOMAIN b.bitArray |->
            b.bitArray[index]
                \/ (b.hashFunctions > 0 /\ hash(item, 0, b.size) = index)]]

\* BloomFilter.add(item): the instance afterwards
add(b, item) ==
    [b EXCEPT !.bitArray =
        [index \in DOMAIN b.bitArray |->
            b.bitArray[index]
                \/ \E i \in 0..(b.hashFunctions - 1) : hash(item, i, b.size) = index]]

\* BloomFilter.mightContain(item)
mightContain(b, item) ==
    \A i \in 0..(b.hashFunctions - 1) : b.bitArray[hash(item, i, b.size)]

\* new BloomFilter(expectedElements, falsePositiveRate)
BloomInit ==
    /\ \E expectedElements \in ExpectedElements, falsePositiveRate \in FalsePositiveRates :
          bloom = [size |-> BloomSize(expectedElements, falsePositiveRate),
                   hashFunctions |-> BloomHashFunctions(expectedElements, falsePositiveRate),
                   bitArray |-> [index \in 0..(BloomSize(expectedElements, falsePositiveRate) - 1)
                                    |-> FALSE]]
    /\ bloomHist = NoBloomHist
    /\ CacheIdle /\ LRUIdle /\ SpatialIdle /\ TrieIdle /\ QueueIdle /\ MemoIdle /\ BatchIdle

BloomAdd(item) ==
    /\ bloom' = add(bloom, item)
    /\ bloomHist' = [added |-> bloomHist.added \cup {item},
                     last |-> [op |-> "add", item |-> item, res |-> FALSE]]
    /\ UNCHANGED <<cacheVars, lruVars, spatialVars, trieVars, queueVars, memoVars, batchVars>>

BloomMightContain(item) ==
    /\ bloomHist' = [bloomHist EXCEPT
                        !.last = [op |-> "mightContain", item |-> item,
                                  res |-> mightContain(bloom, item)]]
    /\ UNCHANGED <<bloom, cacheVars, lruVars, spatialVars, trieVars, queueVars, memoVars, batchVars>>

BloomNext ==
    \/ \E item \in BloomItems : BloomAdd(item)
    \/ \E item \in BloomItems : BloomMightContain(item)

BloomSpec == BloomInit /\ [][BloomNext]_vars

(***************************************************************************)
(* C22.  BloomFilter has no false negatives: once add(x) has been called,  *)
(* mightContain(x) returns true in every later state, whatever further add *)
(* calls follow.                                                           *)
(***************************************************************************)
\* C22: in every state mightContain would answer true for every item added
\* so far, and a call of it for such an item did
C22_NoFalseNegatives ==
    /\ \A item \in bloomHist.added : mightContain(bloom, item)
    /\ (bloomHist.last.op = "mightContain" /\ bloomHist.last.item \in bloomHist.added)
           => bloomHist.last.res

\* C22 witness: "zzzzzzz", whose hashes overflow 32 bits, was added to a
\* filter of 10 bits, other items were added too, and mightContain found
\* it while telling that "a" was not added
C22_Witness ==
    /\ bloom.size = 10
    /\ bloomHist.added = {<<"z", "z", "z", "z", "z", "z", "z">>, <<>>, <<"p", "1">>}
    /\ bloomHist.last.op = "mightContain"
    /\ bloomHist.last.item = <<"z", "z", "z", "z", "z", "z", "z">>
    /\ bloomHist.last.res
    /\ ~mightContain(bloom, <<"a">>)

\* the indices of an item are computed as the int32 arithmetic of the
\* source gives them
BloomHashValues ==
    /\ hash(<<"z", "z", "z", "z", "z", "z", "z">>, 0, 10) = 2
    /\ hash(<<"z", "z", "z", "z", "z", "z", "z">>, 5, 10) = 9
    /\ hash(<<"n", "y", "u", "m", "b", "a">>, 2, 10) = 2
    /\ hash(<<"n", "y", "u", "m", "b", "a">>, 1, 20) = 5
    /\ hash(<<"p", "1">>, 6, 10) = 9
    /\ hash(<<>>, 1, 3) = 1

(***************************************************************************)
(* PriorityQueue<T>.  The array `heap` is a sequence; the element at the   *)
(* index i of the source is the (i + 1)-th of the sequence.                *)
(***************************************************************************)
\* the number of elements the callers let the queue grow to
MaxQueue == 5

QueueItems == {"x", "y"}
Priorities == {1, 2, 3}
Entries == [item : QueueItems, priority : Priorities]

\* this.heap[index]
At(heap, index) == heap[index + 1]

\* parent(index): Math.floor((index - 1) / 2), for index > 0
parent(index) == (index - 1) \div 2

leftChild(index) == 2 * index + 1

rightChild(index) == 2 * index + 2

\* swap(i, j): the array afterwards
swap(heap, i, j) ==
    [heap EXCEPT ![i + 1] = At(heap, j), ![j + 1] = At(heap, i)]

\* heapifyUp(index): the array afterwards
RECURSIVE heapifyUp(_, _)
heapifyUp(heap, index) ==
    IF index > 0
    THEN IF At(heap, parent(index)).priority >= At(heap, index).priority
         THEN heap
         ELSE heapifyUp(swap(heap, parent(index), index), parent(index))
    ELSE heap

\* heapifyDown that never looks at the right child
RECURSIVE heapifyDownLeftOnly(_, _)
heapifyDownLeftOnly(heap, index) ==
    IF leftChild(index) < Len(heap)
    THEN IF At(heap, index).priority >= At(heap, leftChild(index)).priority
         THEN heap
         ELSE heapifyDownLeftOnly(swap(heap, index, leftChild(index)), leftChild(index))
    ELSE heap

\* heapifyDown(index): the array afterwards
RECURSIVE heapifyDown(_, _)
heapifyDown(heap, index) ==
    IF leftChild(index) < Len(heap)
    THEN LET leftIndex == leftChild(index)
             rightIndex == rightChild(index)
             maxIndex == IF /\ rightIndex < Len(heap)
                            /\ At(heap, rightIndex).priority > At(heap, leftIndex).priority
                         THEN rightIndex ELSE leftIndex
         IN IF At(heap, index).priority >= At(heap, maxIndex).priority
            THEN heap
            ELSE heapifyDown(swap(heap, index, maxIndex), maxIndex)
    ELSE heap

\* enqueue that pushes without heapifyUp
enqueueNoHeapify(heap, item, priority) ==
    Append(heap, [item |-> item, priority |-> priority])

\* enqueue(item, priority): the array afterwards
enqueue(heap, item, priority) ==
    heapifyUp(Append(heap, [item |-> item, priority |-> priority]), Len(heap))

\* dequeue(): the array afterwards; heap.pop() takes the last element
dequeueHeap(heap) ==
    IF Len(heap) = 0 THEN heap
    ELSE IF Len(heap) = 1 THEN <<>>
    ELSE heapifyDown([SubSeq(heap, 1, Len(heap) - 1) EXCEPT ![1] = heap[Len(heap)]], 0)

\* dequeue(): the value returned
dequeueResult(heap) ==
    IF Len(heap) = 0 THEN Undefined ELSE At(heap, 0).item

\* peek that removes what it returns
peekRemoves(heap) == dequeueHeap(heap)

\* peek(): the array afterwards
peekHeap(heap) == heap

\* peek(): the value returned
peekResult(heap) ==
    IF Len(heap) > 0 THEN At(heap, 0).item ELSE Undefined

\* size()
size(heap) == Len(heap)

\* no call of the PriorityQueue yet
NoQueueCall == [op |-> "none", res |-> Undefined]

\* the entries of `pending` with the item, and the one of them with the
\* highest priority
PendingWith(pending, item) == {e \in Entries : pending[e] > 0 /\ e.item = item}

Best(entries) == CHOOSE e \in entries : \A other \in entries : other.priority <= e.priority

\* pending after a dequeue returned res: one entry with that item, of the
\* highest priority among those, has left
Leave(pending, res) ==
    IF PendingWith(pending, res) = {} THEN pending
    ELSE [pending EXCEPT ![Best(PendingWith(pending, res))] = @ - 1]

\* new PriorityQueue(); pending: how often each (item, priority) was
\* enqueued and has not been returned by a dequeue since
QueueInit ==
    /\ pq = [heap |-> <<>>]
    /\ pqHist = [pending |-> [e \in Entries |-> 0], last |-> NoQueueCall]
    /\ CacheIdle /\ LRUIdle /\ SpatialIdle /\ TrieIdle /\ BloomIdle /\ MemoIdle /\ BatchIdle

QueueEnqueue(item, priority) ==
    /\ Len(pq.heap) < MaxQueue
    /\ pq' = [heap |-> enqueue(pq.heap, item, priority)]
    /\ pqHist' = [pending |-> [pqHist.pending EXCEPT
                                  ![[item |-> item, priority |-> priority]] = @ + 1],
                  last |-> [op |-> "enqueue", res |-> Undefined]]
    /\ UNCHANGED <<cacheVars, lruVars, spatialVars, trieVars, bloomVars, memoVars, batchVars>>

QueueDequeue ==
    /\ pq' = [heap |-> dequeueHeap(pq.heap)]
    /\ pqHist' = [pending |-> Leave(pqHist.pending, dequeueResult(pq.heap)),
                  last |-> [op |-> "dequeue", res |-> dequeueResult(pq.heap)]]
    /\ UNCHANGED <<cacheVars, lruVars, spatialVars, trieVars, bloomVars, memoVars, batchVars>>

QueuePeek ==
    /\ pq' = [heap |-> peekHeap(pq.heap)]
    /\ pqHist' = [pqHist EXCEPT !.last = [op |-> "peek", res |-> peekResult(pq.heap)]]
    /\ UNCHANGED <<cacheVars, lruVars, spatialVars, trieVars, bloomVars, memoVars, batchVars>>

QueueNext ==
    \/ \E item \in QueueItems, priority \in Priorities : QueueEnqueue(item, priority)
    \/ QueueDequeue
    \/ QueuePeek

QueueSpec == QueueInit /\ [][QueueNext]_vars

(***************************************************************************)
(* C23.  PriorityQueue: repeated dequeue() until empty returns every       *)
(* enqueued item exactly once, in non-increasing order of priority; the    *)
(* same holds for the items remaining after any interleaving of enqueues   *)
(* and dequeues.                                                           *)
(***************************************************************************)
\* repeated dequeue() on the array returns the items of the pending entries
\* exactly once each, every item with a priority it was enqueued with, and
\* these priorities never rise and start at or below `highest`
RECURSIVE Drains(_, _, _)
Drains(heap, pending, highest) ==
    IF dequeueResult(heap) = Undefined
    THEN \A e \in Entries : pending[e] = 0
    ELSE LET res == dequeueResult(heap) IN
         /\ PendingWith(pending, res) # {}
         /\ Best(PendingWith(pending, res)).priority <= highest
         /\ Drains(dequeueHeap(heap), Leave(pending, res),
                   Best(PendingWith(pending, res)).priority)

\* C23: in every state, emptying the queue by dequeue() returns what is
\* pending, highest priority first
C23_DequeueOrder ==
    Drains(pq.heap, pqHist.pending, Best(Entries).priority)

\* C23 witness: after enqueues and dequeues, four entries wait, some with
\* equal priorities, and the last dequeue returned y
C23_Witness ==
    /\ pqHist.last = [op |-> "dequeue", res |-> "y"]
    /\ Len(pq.heap) = 4
    /\ pqHist.pending[[item |-> "x", priority |-> 2]] = 2
    /\ pqHist.pending[[item |-> "y", priority |-> 1]] = 1
    /\ pqHist.pending[[item |-> "x", priority |-> 3]] = 1

(***************************************************************************)
(* C24.  dequeue() and peek() on an empty queue return undefined and leave *)
(* the queue empty; peek() on a non-empty queue returns the max-priority   *)
(* item and leaves the heap and size() unchanged.                          *)
(***************************************************************************)
\* C24: what every step that is a dequeue or a peek does
C24_EmptyAndPeek ==
    [][/\ (pqHist'.last.op \in {"dequeue", "peek"} /\ size(pq.heap) = 0)
              => (pqHist'.last.res = Undefined /\ pq'.heap = <<>>)
       /\ (pqHist'.last.op = "peek" /\ size(pq.heap) > 0)
              => /\ pq'.heap = pq.heap
                 /\ size(pq'.heap) = size(pq.heap)
                 /\ PendingWith(pqHist.pending, pqHist'.last.res) # {}
                 /\ \A e \in Entries :
                        pqHist.pending[e] > 0 =>
                            e.priority <= Best(PendingWith(pqHist.pending,
                                                           pqHist'.last.res)).priority
      ]_vars

\* C24 witness: a peek on a queue of three entries returned y, the only
\* item of the highest priority
C24_Witness ==
    /\ pqHist.last = [op |-> "peek", res |-> "y"]
    /\ size(pq.heap) = 3
    /\ pqHist.pending[[item |-> "y", priority |-> 3]] = 1
    /\ pqHist.pending[[item |-> "x", priority |-> 3]] = 0

(***************************************************************************)
(* C25.  Heap invariant: in every state reachable by enqueue and dequeue   *)
(* calls, every element at an index i > 0 has a priority <= the priority   *)
(* of its parent at index floor((i - 1) / 2).                              *)
(***************************************************************************)
C25_HeapInvariant ==
    \A i \in 1..(Len(pq.heap) - 1) :
        At(pq.heap, i).priority <= At(pq.heap, (i - 1) \div 2).priority

\* C25 witness: a full heap with ties, reached by a dequeue
C25_Witness ==
    /\ pqHist.last.op = "dequeue"
    /\ Len(pq.heap) = 4
    /\ At(pq.heap, 0).priority = 2
    /\ At(pq.heap, 1).priority = 2
    /\ At(pq.heap, 3).priority = 2
    /\ At(pq.heap, 2).priority = 1

(***************************************************************************)
(* C26.  SpatialIndex bucket invariant: after any sequence of addProperty  *)
(* and removeProperty calls (including removals of ids that are not in the *)
(* addressed bucket) the grid contains no empty bucket, and a              *)
(* removeProperty removes nothing from any bucket other than the one       *)
(* addressed by its coordinates.                                           *)
(***************************************************************************)
\* the key of the bucket the last call addressed
AddressedKey(call) == getGridKey(Double(call.lat, 0), Double(call.lng, 0))

\* C26: after every step no bucket is empty, and a removeProperty leaves
\* every bucket but the addressed one as it was
C26_BucketInvariant ==
    [][/\ \A key \in DOMAIN grid' : grid'[key] # {}
       /\ spatialHist'.last.op = "remove" =>
              \A key \in (DOMAIN grid \cup DOMAIN grid') \ {AddressedKey(spatialHist'.last)} :
                  /\ key \in DOMAIN grid
                  /\ key \in DOMAIN grid'
                  /\ grid'[key] = grid[key]
      ]_vars

\* C26 witness: of two ids in two buckets one was removed, and its bucket
\* is gone while the other one is left
C26_Witness ==
    /\ spatialHist.last.op = "remove"
    /\ spatialHist.last.res = {spatialHist.last.id}
    /\ Cardinality(spatialHist.registered) = 1
    /\ Cardinality(DOMAIN grid) = 1
    /\ AddressedKey(spatialHist.last) \notin DOMAIN grid

\* a removeProperty of an id that is not in the addressed, existing bucket
C26_ForeignRemoval ==
    /\ spatialHist.last.op = "remove"
    /\ spatialHist.last.res = {}
    /\ AddressedKey(spatialHist.last) \in DOMAIN grid
    /\ spatialHist.last.id \notin grid[AddressedKey(spatialHist.last)]

(***************************************************************************)
(* C27.  MultiLevelCache read-your-writes: after set(k, v, ...) every      *)
(* get(k) issued before the next set(k)/delete(k)/clear() returns either v *)
(* or not-found, never a value stored by an earlier set of k.              *)
(***************************************************************************)
\* C27: a get of the watched key, while its last set is neither deleted
\* nor cleared, returns the data of that set or null
C27_ReadYourWrites ==
    (last.op = "get" /\ last.key = WatchedKey /\ lastSet.state = "set")
        => last.res \in {lastSet.data, Null}

\* the stale read without any rejected write: the last set of the watched
\* key was not persistent and every write of it was accepted, and a get
\* returned the data of an earlier, persistent set from localStorage
C27_StaleAfterNonPersistentSet ==
    /\ last.op = "get" /\ last.key = WatchedKey /\ last.branch = "l3"
    /\ lastSet.state = "set" /\ ~lastSet.persistent /\ lastSet.l2ok
    /\ lastSet.data = "NaN"
    /\ last.res = "a"

(***************************************************************************)
(* C28.  get on a key whose tier-3 envelope is well-formed and unexpired   *)
(* (tiers 1 and 2 missing) returns the envelope's data and leaves that     *)
(* tier-3 entry in place, also when the tier-2 write performed by the      *)
(* promotion fails; the tier-2 copy written by the promotion carries the   *)
(* original timestamp and ttl.                                             *)
(***************************************************************************)
\* the last call was a get that found nothing in tiers 1 and 2 and read a
\* well-formed, unexpired envelope from localStorage
Tier3Served ==
    /\ last.op = "get"
    /\ last.read2 = NoItem
    /\ Truthy(last.read3)
    /\ ~JSONparseThrows(last.read3)
    /\ (now - JSONparse(last.read3).timestamp) < JSONparse(last.read3).ttl

\* C28: such a get returned the envelope's data, the envelope is still in
\* localStorage, and what sessionStorage holds for the key afterwards is
\* the same string
C28_Tier3HitSurvivesPromotion ==
    Tier3Served =>
        /\ last.res = JSONparse(last.read3).data
        /\ l3Cache[<<L3Prefix, last.key>>] = last.read3
        /\ l2Cache[<<L2Prefix, last.key>>] \in {NoItem, last.read3}

\* the claim's statement for the gets whose promotion write was accepted
C28_WhenPromotionAccepted ==
    (Tier3Served /\ last.branch = "l3") =>
        /\ last.res = JSONparse(last.read3).data
        /\ l3Cache[<<L3Prefix, last.key>>] = last.read3
        /\ l2Cache[<<L2Prefix, last.key>>] = last.read3

(***************************************************************************)
(* memoizeWithTTL.  memoCache is one Map of the module; the functions      *)
(* returned by memoizeWithTTL are named g1, g2.  What a wrapped fn returns *)
(* is the record of the call that computed it: by whom, for which          *)
(* arguments, when.                                                        *)
(***************************************************************************)
\* g1 = memoizeWithTTL(f1, 1), g2 = memoizeWithTTL(f2, MaxTime)
Wrapped == {"g1", "g2"}
ttlOf(g) == IF g = "g1" THEN 1 ELSE MaxTime

\* argument lists: ["1"], [null], [NaN]
ArgLists == {<<"1">>, <<Null>>, <<"NaN">>}

\* JSON.stringify(args) of an array: NaN and undefined are written as null
JSONstringifyArgs(args) ==
    [i \in 1..Len(args) |-> IF args[i] \in {"NaN", Undefined} THEN Null ELSE args[i]]

MemoKeys == {JSONstringifyArgs(args) : args \in ArgLists}

\* memoCache.get(key) when there is no entry
NoEntry == [value |-> Undefined, timestamp |-> 0, ttl |-> 0]

\* fn(...args) of the function wrapped as g, called at time t
fnResult(g, args, t) == [by |-> g, args |-> args, at |-> t]

\* `cached && now - cached.timestamp < cached.ttl`
memoHit(m, key) ==
    /\ m.memoCache[key] # NoEntry
    /\ (m.now - m.memoCache[key].timestamp) < m.memoCache[key].ttl

\* the wrapper of g called with args: the value returned
memoizedResult(m, g, args) ==
    IF memoHit(m, JSONstringifyArgs(args))
    THEN m.memoCache[JSONstringifyArgs(args)].value
    ELSE fnResult(g, args, m.now)

\* the wrapper of g called with args: memoCache afterwards
memoizedCache(m, g, args) ==
    IF memoHit(m, JSONstringifyArgs(args))
    THEN m.memoCache
    ELSE [m.memoCache EXCEPT ![JSONstringifyArgs(args)] =
             [value |-> fnResult(g, args, m.now), timestamp |-> m.now, ttl |-> ttlOf(g)]]

\* the module is loaded: memoCache = new Map()
MemoInit ==
    /\ memo = [memoCache |-> [key \in MemoKeys |-> NoEntry], now |-> 1]
    /\ memoHist = [op |-> "none", g |-> "-", args |-> <<>>, at |-> 0, res |-> Undefined]
    /\ CacheIdle /\ LRUIdle /\ SpatialIdle /\ TrieIdle /\ BloomIdle /\ QueueIdle /\ BatchIdle

MemoCall(g, args) ==
    /\ memo' = [memo EXCEPT !.memoCache = memoizedCache(memo, g, args)]
    /\ memoHist' = [op |-> "call", g |-> g, args |-> args, at |-> memo.now,
                    res |-> memoizedResult(memo, g, args)]
    /\ UNCHANGED <<cacheVars, lruVars, spatialVars, trieVars, bloomVars, queueVars, batchVars>>

\* the interval of MemoryManager.scheduleCleanup: entries older than their
\* ttl are deleted
MemoCleanup ==
    /\ memo' = [memo EXCEPT !.memoCache =
                   [key \in MemoKeys |->
                       IF (memo.now - memo.memoCache[key].timestamp) > memo.memoCache[key].ttl
                       THEN NoEntry ELSE memo.memoCache[key]]]
    /\ memoHist' = [memoHist EXCEPT !.op = "cleanup"]
    /\ UNCHANGED <<cacheVars, lruVars, spatialVars, trieVars, bloomVars, queueVars, batchVars>>

\* time passes between two calls
MemoTick ==
    /\ memo.now < MaxTime + 1
    /\ memo' = [memo EXCEPT !.now = memo.now + 1]
    /\ memoHist' = [memoHist EXCEPT !.op = "tick"]
    /\ UNCHANGED <<cacheVars, lruVars, spatialVars, trieVars, bloomVars, queueVars, batchVars>>

MemoNext ==
    \/ \E g \in Wrapped, args \in ArgLists : MemoCall(g, args)
    \/ MemoCleanup
    \/ MemoTick

MemoSpec == MemoInit /\ [][MemoNext]_vars

(***************************************************************************)
(* C29.  A call g(args) of g = memoizeWithTTL(f, ttl) returns either       *)
(* f(args) computed by this call or a value that an earlier call of the    *)
(* same g computed for equal args less than ttl ago; it never returns a    *)
(* value computed by a different memoized function.                        *)
(***************************************************************************)
\* C29: the value a call returned was computed by the called function, for
\* the arguments of the call, by this call or less than its ttl before
C29_MemoizedPerFunction ==
    memoHist.op = "call" =>
        /\ memoHist.res.by = memoHist.g
        /\ memoHist.res.args = memoHist.args
        /\ \/ memoHist.res.at = memoHist.at
           \/ (memoHist.at - memoHist.res.at) < ttlOf(memoHist.g)

\* what does hold: the value was computed for arguments of the same JSON
\* text, by whichever function stored it, less than that function's ttl
\* before
C29_SameKey ==
    memoHist.op = "call" =>
        /\ JSONstringifyArgs(memoHist.res.args) = JSONstringifyArgs(memoHist.args)
        /\ \/ memoHist.res.at = memoHist.at
           \/ (memoHist.at - memoHist.res.at) < ttlOf(memoHist.res.by)

\* a call of g2 that returned what g1 had computed for the same arguments
C29_OtherFunctionsValue ==
    /\ memoHist.op = "call" /\ memoHist.g = "g2" /\ memoHist.args = <<"1">>
    /\ memoHist.res = [by |-> "g1", args |-> <<"1">>, at |-> memoHist.at]

(***************************************************************************)
(* BatchProcessor<T>.  timeout is null or the handle of the one timer that *)
(* is set; runs is the number of processor calls whose promise is not      *)
(* settled yet.  flush is an async function: up to and including the call  *)
(* this.processor(items) it runs within the caller's step, what follows    *)
(* the await runs when the promise settles.                                *)
(***************************************************************************)
\* the number of add calls the callers make
MaxAdds == 4

BatchItems == {"a", "b"}
BatchSizes == {1, 2, 3}
NoTimeout == "null"
Timer == "timer"

\* flush that does not reset this.batch
flushKeepsBatch(b) ==
    IF Len(b.batch) = 0 THEN b
    ELSE [b EXCEPT !.timeout = NoTimeout, !.runs = @ + 1]

\* flush(), up to the await: the instance afterwards
flush(b) ==
    IF Len(b.batch) = 0 THEN b
    ELSE [b EXCEPT !.batch = <<>>, !.timeout = NoTimeout, !.runs = @ + 1]

\* flush(): the argument of this.processor(items), <<>> when it is not called
flushItems(b) == b.batch

\* scheduleFlush(): a timer that is set is cleared and a new one is set
scheduleFlush(b) == [b EXCEPT !.timeout = Timer]

\* add(item): the instance afterwards
addItem(b, item) ==
    LET pushed == [b EXCEPT !.batch = Append(b.batch, item)] IN
    IF Len(pushed.batch) >= b.batchSize THEN flush(pushed) ELSE scheduleFlush(pushed)

\* add(item): the batch handed to the processor within the call, <<>> if none
addItemHands(b, item) ==
    IF Len(b.batch) + 1 >= b.batchSize THEN flushItems([b EXCEPT !.batch = Append(b.batch, item)])
    ELSE <<>>

\* the batches handed over so far, with one more when items is not empty
Handed(handed, items, by) ==
    IF items = <<>> THEN handed ELSE Append(handed, [items |-> items, by |-> by])

\* new BatchProcessor(processor, batchSize, delay)
BatchInit ==
    /\ \E batchSize \in BatchSizes :
          bp = [batch |-> <<>>, batchSize |-> batchSize, timeout |-> NoTimeout, runs |-> 0]
    /\ bpHist = [added |-> <<>>, handed |-> <<>>, rejected |-> FALSE]
    /\ CacheIdle /\ LRUIdle /\ SpatialIdle /\ TrieIdle /\ BloomIdle /\ QueueIdle /\ MemoIdle

BatchAdd(item) ==
    /\ Len(bpHist.added) < MaxAdds
    /\ bp' = addItem(bp, item)
    /\ bpHist' = [bpHist EXCEPT !.added = Append(@, item),
                                !.handed = Handed(@, addItemHands(bp, item), "add")]
    /\ UNCHANGED <<cacheVars, lruVars, spatialVars, trieVars, bloomVars, queueVars, memoVars>>

\* the callback of setTimeout runs: () => this.flush()
BatchTimer ==
    /\ bp.timeout = Timer
    /\ bp' = flush(bp)
    /\ bpHist' = [bpHist EXCEPT !.handed = Handed(@, flushItems(bp), "timer")]
    /\ UNCHANGED <<cacheVars, lruVars, spatialVars, trieVars, bloomVars, queueVars, memoVars>>

\* the promise of a processor call settles: flush resumes after the await,
\* and a rejection is caught and logged
BatchSettle(rejects) ==
    /\ bp.runs > 0
    /\ bp' = [bp EXCEPT !.runs = @ - 1]
    /\ bpHist' = [bpHist EXCEPT !.rejected = @ \/ rejects]
    /\ UNCHANGED <<cacheVars, lruVars, spatialVars, trieVars, bloomVars, queueVars, memoVars>>

BatchNext ==
    \/ \E item \in BatchItems : BatchAdd(item)
    \/ BatchTimer
    \/ \E rejects \in BOOLEAN : BatchSettle(rejects)

\* a timer that is set fires after its delay
BatchSpec == BatchInit /\ [][BatchNext]_vars /\ WF_vars(BatchTimer)

(***************************************************************************)
(* C30.  BatchProcessor: every item passed to add() is handed to the       *)
(* processor exactly once, in add order and in a batch of at most          *)
(* batchSize items, and is eventually handed over (immediately when the    *)
(* pending batch reaches batchSize, otherwise when the delay timer fires), *)
(* for every interleaving of add calls, timer firings and pending          *)
(* processor runs, including a run that rejects.                           *)
(***************************************************************************)
\* the items of the batches, in the order they were handed over
RECURSIVE Flatten(_)
Flatten(batches) ==
    IF batches = <<>> THEN <<>> ELSE Head(batches).items \o Flatten(Tail(batches))

\* what was handed over, followed by what waits, is what was added; no
\* batch is empty or longer than batchSize; a batch that is full does not
\* wait, and one that waits has its timer set
C30_HandedOnceInOrder ==
    /\ Flatten(bpHist.handed) \o bp.batch = bpHist.added
    /\ \A i \in 1..Len(bpHist.handed) :
          /\ Len(bpHist.handed[i].items) \in 1..bp.batchSize
          /\ bpHist.handed[i].by = "add" => Len(bpHist.handed[i].items) = bp.batchSize
    /\ Len(bp.batch) < bp.batchSize
    /\ bp.batch # <<>> => bp.timeout = Timer

\* C30: the above in every state, and the n-th item added is handed over
\* at some time
C30_EveryItemHandedOnce ==
    /\ []C30_HandedOnceInOrder
    /\ \A n \in 1..MaxAdds :
          (Len(bpHist.added) >= n) ~> (Len(Flatten(bpHist.handed)) >= n)

\* C30 witness: of four items added to a processor of batches of 3, three
\* were handed over by the add that filled the batch and the fourth by the
\* timer, while a rejected run is over and another run is still pending
C30_Witness ==
    /\ bp.batchSize = 3
    /\ Len(bpHist.added) = 4
    /\ Len(bpHist.handed) = 2
    /\ bpHist.handed[1].by = "add"
    /\ bpHist.handed[2].by = "timer"
    /\ bpHist.rejected
    /\ bp.runs = 1

====
